---- MODULE Spec2Model ----
(***************************************************************************)
(* A model of DebtGuardianAgent's detection core:                          *)
(*   - the detectors of debt_detector.py (label normalisation, confidence  *)
(*     scoring, detect),                                                   *)
(*   - the coordinator of coordinator.py (construction, analyze_file,      *)
(*     batch dispatch, filtering, summary),                                *)
(*   - the slicer of program_slicer.py (block extraction, line counting,   *)
(*     primary and fallback extraction),                                   *)
(*   - the entry points of debt_guardian.py (analyze_file,                 *)
(*     analyze_directory, analyze_repository, aggregation).                *)
(*                                                                         *)
(* Conventions.                                                            *)
(*   - A Python dict is a TLA+ record; a key the code does not set is      *)
(*     absent from the record's DOMAIN, and dict.get(k, d) is Get(r,k,d).  *)
(*   - A confidence is kept in hundredths (0.75 is 75), min_confidence     *)
(*     too; getter_setter_ratio is the exact fraction [num, den].          *)
(*   - A text is a sequence of one-token strings.                          *)
(*   - The specifications share the variables: Spec (the coordinator),     *)
(*     SpecConf (the detectors as pure functions), SpecSlice (the slicer), *)
(*     SpecPool (one batch larger than the pool), SpecLoc (localization),  *)
(*     SpecRepo (a repository or directory run), SpecBlock (one call of    *)
(*     _extract_block).                                                    *)
(***************************************************************************)
EXTENDS Integers, Sequences, FiniteSets, TLC

VARIABLES
    fn,         \* SpecConf: the detector function under application
    co,         \* Spec: the coordinator object and its configuration
    run,        \* Spec: the analyze_file call in progress
    sl,         \* SpecSlice: the slice_code call
    rp          \* SpecRepo: the repository or directory run in progress

vars == <<fn, co, run, sl, rp>>

(***************************************************************************)
(* Python values                                                           *)
(***************************************************************************)
PyNone == "<None>"

Get(d, k, default) == IF k \in DOMAIN d THEN d[k] ELSE default

\* d[k] = v on a dict.
Put(d, k, v) == (k :> v) @@ d

EmptyDict == [k \in {} |-> 0]

\* None where the code expects a text.  The code only tests such a value for
\* falsiness, which None and the empty text share.
NoText == <<>>

ZeroRatio == [num |-> 0, den |-> 1]

RECURSIVE SeqSum(_)
SeqSum(s) == IF s = <<>> THEN 0 ELSE Head(s) + SeqSum(Tail(s))

RECURSIVE Flatten(_)
Flatten(ss) == IF ss = <<>> THEN <<>> ELSE Head(ss) \o Flatten(Tail(ss))

Range(s) == {s[i] : i \in DOMAIN s}

\* All sequences over S of length at most n.
SeqsUpTo(S, n) == UNION {[1..k -> S] : k \in 0..n}

(***************************************************************************)
(* Bounds of the model                                                     *)
(***************************************************************************)
MaxTextLen == 2     \* length of a raw detector reply

(***************************************************************************)
(* debt_detector.py -- ClassDebtDetector                                   *)
(***************************************************************************)
\* str.strip(): leading and trailing blanks removed.
RECURSIVE LStrip(_)
LStrip(t) == IF t # <<>> /\ Head(t) = " " THEN LStrip(Tail(t)) ELSE t

RECURSIVE RStrip(_)
RStrip(t) ==
    IF t # <<>> /\ t[Len(t)] = " " THEN RStrip(SubSeq(t, 1, Len(t) - 1)) ELSE t

Strip(t) == RStrip(LStrip(t))

\* re.search(r'[0-2]', text): the first character that is 0, 1 or 2.
RECURSIVE FirstIn(_, _)
FirstIn(t, S) ==
    IF t = <<>> THEN PyNone
    ELSE IF Head(t) \in S THEN Head(t) ELSE FirstIn(Tail(t), S)

ClassNormalizeLabelAnyDigit(text) ==
    LET m == FirstIn(text, {"0", "1", "2", "3", "4"})
    IN  IF m # PyNone THEN m ELSE "UNKNOWN"

ClassNormalizeLabel(text) ==
    LET m == FirstIn(text, {"0", "1", "2"})
    IN  IF m # PyNone THEN m ELSE "UNKNOWN"

ClassLabelToDebtType(label) ==
    CASE label = "0" -> "No Smell"
      [] label = "1" -> "Blob"
      [] label = "2" -> "Data Class"
      [] OTHER -> PyNone

ClassCalculateConfidenceInclusive(label, metrics) ==
    IF label = "0" THEN 90
    ELSE IF label = "1" THEN
        LET loc == Get(metrics, "loc", 0)
            method_count == Get(metrics, "method_count", 0)
        IN  IF loc >= 500 \/ method_count >= 20 THEN 90
            ELSE IF loc >= 300 \/ method_count >= 15 THEN 75
            ELSE 60
    ELSE IF label = "2" THEN
        LET r == Get(metrics, "getter_setter_ratio", ZeroRatio)
        IN  IF 10 * r.num >= 8 * r.den THEN 90
            ELSE IF 10 * r.num >= 6 * r.den THEN 75
            ELSE 60
    ELSE 50

ClassCalculateConfidence(label, metrics) ==
    IF label = "0" THEN 90
    ELSE IF label = "1" THEN
        LET loc == Get(metrics, "loc", 0)
            method_count == Get(metrics, "method_count", 0)
        IN  IF loc > 500 \/ method_count > 20 THEN 90
            ELSE IF loc > 300 \/ method_count > 15 THEN 75
            ELSE 60
    ELSE IF label = "2" THEN
        LET r == Get(metrics, "getter_setter_ratio", ZeroRatio)
        IN  IF 10 * r.num > 8 * r.den THEN 90
            ELSE IF 10 * r.num > 6 * r.den THEN 75
            ELSE 60
    ELSE 50

\* The reply of agent.generate_reply: a dict with "content", or nothing.
\* (A call that raises returns no value: the callers model it.)
Reply(text) == [kind |-> "reply", content |-> text]
NoReply == [kind |-> "none"]
Raises == [kind |-> "raise"]

ClassDetect(class_info, response) ==
    LET class_name == Get(class_info, "name", "Unknown")
        metrics == Get(class_info, "metrics", EmptyDict)
    IN  IF response.kind = "reply" THEN
            LET raw_label == Strip(response.content)
                label == ClassNormalizeLabel(raw_label)
            IN  [type |-> "class", name |-> class_name, label |-> label,
                 debt_type |-> ClassLabelToDebtType(label),
                 confidence |-> ClassCalculateConfidence(label, metrics),
                 metrics |-> metrics, raw_response |-> raw_label,
                 granularity |-> "class"]
        ELSE [type |-> "class", name |-> class_name, label |-> "UNKNOWN",
              debt_type |-> PyNone, confidence |-> 0,
              error |-> "No response from agent"]

(***************************************************************************)
(* debt_detector.py -- MethodDebtDetector                                  *)
(***************************************************************************)
Contains(t, c) == \E i \in DOMAIN t : t[i] = c

MethodNormalizeLabel(text) ==
    IF Contains(text, "3") THEN "3"
    ELSE IF Contains(text, "4") THEN "4"
    ELSE IF Contains(text, "0") THEN "0"
    ELSE "UNKNOWN"

MethodLabelToDebtType(label) ==
    CASE label = "0" -> "No Smell"
      [] label = "3" -> "Feature Envy"
      [] label = "4" -> "Long Method"
      [] OTHER -> PyNone

MethodCalculateConfidenceStrict(label, metrics) ==
    IF label = "0" THEN 90
    ELSE IF label = "3" THEN
        LET external_calls == Get(metrics, "external_calls", 0)
        IN  IF external_calls > 7 THEN 90
            ELSE IF external_calls > 5 THEN 75
            ELSE 60
    ELSE IF label = "4" THEN
        LET loc == Get(metrics, "loc", 0)
            complexity == Get(metrics, "cyclomatic_complexity", 0)
        IN  IF loc > 25 \/ complexity > 15 THEN 90
            ELSE IF loc > 15 \/ complexity > 10 THEN 75
            ELSE 60
    ELSE 50

MethodCalculateConfidence(label, metrics) ==
    IF label = "0" THEN 90
    ELSE IF label = "3" THEN
        LET external_calls == Get(metrics, "external_calls", 0)
        IN  IF external_calls >= 7 THEN 90
            ELSE IF external_calls >= 5 THEN 75
            ELSE 60
    ELSE IF label = "4" THEN
        LET loc == Get(metrics, "loc", 0)
            complexity == Get(metrics, "cyclomatic_complexity", 0)
        IN  IF loc >= 25 \/ complexity >= 15 THEN 90
            ELSE IF loc >= 15 \/ complexity >= 10 THEN 75
            ELSE 60
    ELSE 50

MethodDetectNoReplyScored(method_info, response) ==
    LET method_name == Get(method_info, "name", "Unknown")
        metrics == Get(method_info, "metrics", EmptyDict)
        raw_label == IF response.kind = "reply" THEN Strip(response.content)
                     ELSE <<>>
        label == MethodNormalizeLabel(raw_label)
    IN  [type |-> "method", name |-> method_name, label |-> label,
         debt_type |-> MethodLabelToDebtType(label),
         confidence |-> MethodCalculateConfidence(label, metrics),
         metrics |-> metrics, raw_response |-> raw_label,
         granularity |-> "method"]

MethodDetect(method_info, response) ==
    LET method_name == Get(method_info, "name", "Unknown")
        metrics == Get(method_info, "metrics", EmptyDict)
    IN  IF response.kind = "reply" THEN
            LET raw_label == Strip(response.content)
                label == MethodNormalizeLabel(raw_label)
            IN  [type |-> "method", name |-> method_name, label |-> label,
                 debt_type |-> MethodLabelToDebtType(label),
                 confidence |-> MethodCalculateConfidence(label, metrics),
                 metrics |-> metrics, raw_response |-> raw_label,
                 granularity |-> "method"]
        ELSE [type |-> "method", name |-> method_name, label |-> "UNKNOWN",
              debt_type |-> PyNone, confidence |-> 0,
              error |-> "No response from agent"]

\* The detector of one granularity.
Detect(gran, unit, response) ==
    IF gran = "class" THEN ClassDetect(unit, response)
    ELSE MethodDetect(unit, response)

(***************************************************************************)
(* Source text                                                             *)
(*                                                                         *)
(* A source text is a sequence of tokens.  The tokens that the code's      *)
(* scanners tell apart are single characters: "\n", " ", "{", "}", the     *)
(* double quote DQ, the single quote "'", the backslash BS; the comment    *)
(* markers "//", "/*", "*/" are one token each.  Every other token is a    *)
(* run of text that holds none of these: a declaration header such as      *)
(* "public class A" or "public void f()", or other code such as "int x;".  *)
(***************************************************************************)
NL == "\n"
DQ == "\""
SQ == "'"
BS == "\\"

IsSpace(tok) == tok \in {" ", NL}

\* The declaration headers of the texts used here, with the name each declares.
ClassHeaders == {"public class A", "class B"}

ClassHeaderName(tok) == IF tok = "public class A" THEN "A" ELSE "B"

MethodHeaders == {"public void f()", "public int getX()", "public int get()"}

MethodHeaderName(tok) ==
    CASE tok = "public void f()" -> "f"
      [] tok = "public int getX()" -> "getX"
      [] OTHER -> "get"

\* str.split(sep): the pieces between the separators (at least one piece).
RECURSIVE SplitOn(_, _)
SplitOn(t, sep) ==
    IF \A i \in DOMAIN t : t[i] # sep THEN <<t>>
    ELSE LET i == CHOOSE j \in DOMAIN t :
                      t[j] = sep /\ \A h \in 1..(j - 1) : t[h] # sep
         IN  <<SubSeq(t, 1, i - 1)>> \o SplitOn(SubSeq(t, i + 1, Len(t)), sep)

\* str.strip() of a piece of source text: blanks and newlines removed.
RECURSIVE LStripWs(_)
LStripWs(t) == IF t # <<>> /\ IsSpace(Head(t)) THEN LStripWs(Tail(t)) ELSE t

RECURSIVE RStripWs(_)
RStripWs(t) ==
    IF t # <<>> /\ IsSpace(t[Len(t)]) THEN RStripWs(SubSeq(t, 1, Len(t) - 1))
    ELSE t

StripWs(t) == RStripWs(LStripWs(t))

\* a in b, for strings.
IsSubstring(a, b) ==
    \E i \in 0..(Len(b) - Len(a)) : SubSeq(b, i + 1, i + Len(a)) = a

(***************************************************************************)
(* program_slicer.py -- line counting and block extraction                 *)
(***************************************************************************)
\* _count_loc: the loop over the lines, with its in_multiline_comment flag.
RECURSIVE CountLocLines(_, _)
CountLocLines(lines, in_multiline_comment) ==
    IF lines = <<>> THEN 0
    ELSE LET stripped == StripWs(Head(lines))
             opened == IF Contains(stripped, "/*") THEN TRUE
                       ELSE in_multiline_comment
         IN  IF Contains(stripped, "*/") THEN CountLocLines(Tail(lines), FALSE)
             ELSE IF opened THEN CountLocLines(Tail(lines), TRUE)
             ELSE (IF stripped # <<>> /\ Head(stripped) # "//" THEN 1 ELSE 0)
                  + CountLocLines(Tail(lines), FALSE)

CountLoc(code) == CountLocLines(SplitOn(code, NL), FALSE)

\* str.find("{", start_pos), 1-based; 0 when there is none.
FindBrace(source_code, start_pos) ==
    IF \E i \in start_pos..Len(source_code) : source_code[i] = "{"
    THEN CHOOSE i \in start_pos..Len(source_code) :
            /\ source_code[i] = "{"
            /\ \A j \in start_pos..(i - 1) : source_code[j] # "{"
    ELSE 0

\* The scanning loop of _extract_block from position i on: the position of
\* the brace that brings count back to zero, 0 when the text ends first.
RECURSIVE BlockEnd(_, _, _, _, _, _)
BlockEnd(source_code, i, count, in_string, in_char, escape) ==
    IF i > Len(source_code) THEN 0
    ELSE LET char == source_code[i]
         IN  IF escape THEN
                 BlockEnd(source_code, i + 1, count, in_string, in_char, FALSE)
             ELSE IF char = BS THEN
                 BlockEnd(source_code, i + 1, count, in_string, in_char, TRUE)
             ELSE
                 LET str2 == IF char = DQ /\ ~in_char THEN ~in_string
                             ELSE in_string
                     chr2 == IF ~(char = DQ /\ ~in_char) /\ char = SQ
                                    /\ ~in_string
                             THEN ~in_char ELSE in_char
                     outside == ~str2 /\ ~chr2
                 IN  IF outside /\ char = "{" THEN
                         BlockEnd(source_code, i + 1, count + 1, str2, chr2, FALSE)
                     ELSE IF outside /\ char = "}" THEN
                         IF count - 1 = 0 THEN i
                         ELSE BlockEnd(source_code, i + 1, count - 1, str2, chr2,
                                       FALSE)
                     ELSE BlockEnd(source_code, i + 1, count, str2, chr2, FALSE)

\* _extract_block: the text from start_pos through the closing brace, or
\* None.  Positions are 1-based.
ExtractBlock(source_code, start_pos) ==
    LET brace_pos == FindBrace(source_code, start_pos)
    IN  IF brace_pos = 0 THEN NoText
        ELSE LET e == BlockEnd(source_code, brace_pos, 0, FALSE, FALSE, FALSE)
             IN  IF e = 0 THEN NoText ELSE SubSeq(source_code, start_pos, e)

(***************************************************************************)
(* program_slicer.py -- the declaration patterns                           *)
(***************************************************************************)
\* The first token after position i that is not white space, "" if none.
RECURSIVE NextCode(_, _)
NextCode(source_code, i) ==
    IF i + 1 > Len(source_code) THEN ""
    ELSE IF IsSpace(source_code[i + 1]) THEN NextCode(source_code, i + 1)
    ELSE source_code[i + 1]

\* The positions in S, in increasing order.
RECURSIVE Ascending(_)
Ascending(S) ==
    IF S = {} THEN <<>>
    ELSE LET m == CHOOSE x \in S : \A y \in S : x <= y
         IN  <<m>> \o Ascending(S \ {m})

\* re.finditer(class_pattern, source_code): a class header matches wherever
\* it stands; match.start() of each match.
ClassMatches(source_code) ==
    Ascending({i \in DOMAIN source_code : source_code[i] \in ClassHeaders})

\* re.finditer(method_pattern, source_code): a method header matches when
\* its parameter list is followed by "{", white space allowed between.
IsMethodMatch(source_code, i) ==
    source_code[i] \in MethodHeaders /\ NextCode(source_code, i) = "{"

MethodMatches(source_code) ==
    Ascending({i \in DOMAIN source_code : IsMethodMatch(source_code, i)})

\* _extract_class_code_by_name: re.search of the header of class_name
\* followed by "{", then the block from the start of the match.
ExtractClassCodeByName(source_code, class_name) ==
    LET hits == {i \in DOMAIN source_code :
                    /\ source_code[i] \in ClassHeaders
                    /\ ClassHeaderName(source_code[i]) = class_name
                    /\ NextCode(source_code, i) = "{"}
    IN  IF hits = {} THEN NoText
        ELSE ExtractBlock(source_code, Ascending(hits)[1])

\* _extract_method_code_by_name
ExtractMethodCodeByName(source_code, method_name) ==
    LET hits == {i \in DOMAIN source_code :
                    /\ IsMethodMatch(source_code, i)
                    /\ MethodHeaderName(source_code[i]) = method_name}
    IN  IF hits = {} THEN NoText
        ELSE ExtractBlock(source_code, Ascending(hits)[1])

(***************************************************************************)
(* program_slicer.py -- metrics                                            *)
(***************************************************************************)
\* _strip_comments: block comments, then line comments, removed.
RECURSIVE StripBlockComments(_, _)
StripBlockComments(code, inside) ==
    IF code = <<>> THEN <<>>
    ELSE IF inside THEN StripBlockComments(Tail(code), Head(code) # "*/")
    ELSE IF Head(code) = "/*" /\ Contains(Tail(code), "*/")
    THEN StripBlockComments(Tail(code), TRUE)
    ELSE <<Head(code)>> \o StripBlockComments(Tail(code), FALSE)

RECURSIVE StripLineComments(_, _)
StripLineComments(code, inside) ==
    IF code = <<>> THEN <<>>
    ELSE IF Head(code) = NL THEN <<NL>> \o StripLineComments(Tail(code), FALSE)
    ELSE IF inside \/ Head(code) = "//" THEN StripLineComments(Tail(code), TRUE)
    ELSE <<Head(code)>> \o StripLineComments(Tail(code), FALSE)

StripComments(code) == StripLineComments(StripBlockComments(code, FALSE), FALSE)

CountTokens(code, S) == Cardinality({i \in DOMAIN code : code[i] \in S})

\* _estimate_complexity: 1 plus the decision points.
EstimateComplexity(code) ==
    1 + CountTokens(code, {"if", "else", "for", "while", "case", "catch",
                           "&&", "||", "?"})

\* _count_external_calls: the "object.method(" patterns outside comments.
CountExternalCalls(code) == CountTokens(StripComments(code), {"obj.call("})

StartsWith(name, prefix) ==
    \/ prefix = "get" /\ name \in {"get", "getX"}
    \/ prefix = "set" /\ name \in {"set", "setX"}
    \/ prefix = "is" /\ name \in {"is", "isX"}

\* _count_getters_setters
CountGettersSetters(methods) ==
    Cardinality({i \in DOMAIN methods :
        /\ \/ StartsWith(methods[i].name, "get")
           \/ StartsWith(methods[i].name, "set")
           \/ StartsWith(methods[i].name, "is")
        /\ Get(Get(methods[i], "metrics", EmptyDict), "loc", 0) <= 3})

(***************************************************************************)
(* javalang.parse.parse, on the Java these texts can hold                  *)
(*                                                                         *)
(* A compilation unit is a sequence of class declarations; a class body    *)
(* holds fields ("int x;"), methods and classes; a method body holds       *)
(* statements ("int x;").  Anything else is a syntax error, which the      *)
(* parser raises.  A class declared inside a method body is not decided    *)
(* here ("unmodelled"): such texts are not among the inputs.               *)
(***************************************************************************)
\* The tokens the parser sees: no white space, no line comments.
Lexed(source_code) ==
    LET c == StripLineComments(source_code, FALSE)
    IN  SelectSeq(c, LAMBDA tok : ~IsSpace(tok))

ClassNode(header) ==
    [name |-> ClassHeaderName(header), methods |-> <<>>, fields |-> 0,
     modifiers |-> IF header = "public class A" THEN {"public"} ELSE {}]

\* stack: for each open block, the index in out of its class, 0 for a method.
RECURSIVE ParseTokens(_, _, _)
ParseTokens(toks, stack, out) ==
    LET top == IF stack = <<>> THEN -1 ELSE stack[Len(stack)]
        opens == Len(toks) >= 2 /\ toks[2] = "{"
    IN  IF toks = <<>> THEN
            IF stack = <<>> THEN [status |-> "ok", classes |-> out]
            ELSE [status |-> "error"]
        ELSE IF Head(toks) \in ClassHeaders /\ opens THEN
            IF top = 0 THEN [status |-> "unmodelled"]
            ELSE ParseTokens(SubSeq(toks, 3, Len(toks)),
                             Append(stack, Len(out) + 1),
                             Append(out, ClassNode(Head(toks))))
        ELSE IF Head(toks) \in MethodHeaders /\ opens /\ top > 0 THEN
            ParseTokens(SubSeq(toks, 3, Len(toks)), Append(stack, 0),
                        [out EXCEPT ![top].methods =
                            Append(@, MethodHeaderName(Head(toks)))])
        ELSE IF Head(toks) = "int x;" /\ top >= 0 THEN
            ParseTokens(Tail(toks), stack,
                        IF top > 0 THEN [out EXCEPT ![top].fields = @ + 1]
                        ELSE out)
        ELSE IF Head(toks) = "}" /\ top >= 0 THEN
            ParseTokens(Tail(toks), SubSeq(stack, 1, Len(stack) - 1), out)
        ELSE [status |-> "error"]

\* The tree, reduced to what the slicer reads: the ClassDeclaration nodes in
\* the order tree.filter yields them, each with the names of its own
\* methods, the number of its fields and its modifiers.
JavaParse(source_code) == ParseTokens(Lexed(source_code), <<>>, <<>>)

(***************************************************************************)
(* program_slicer.py -- ProgramSlicerAgent                                 *)
(***************************************************************************)
\* What an extraction returns for a declaration it gives up on (None).
NoUnit == [type |-> PyNone]

\* _extract_method_from_ast; method_node is the declared name, the headers
\* of these texts take no parameter.
ExtractMethodFromAst(slicer, method_node, class_code, file_path, parent_class) ==
    LET method_name == method_node
        method_code == ExtractMethodCodeByName(class_code, method_name)
        loc == CountLoc(method_code)
    IN  IF method_code = NoText THEN NoUnit
        ELSE [type |-> "method", name |-> method_name, code |-> method_code,
              file_path |-> file_path, parent_class |-> parent_class,
              metrics |->
                  IF slicer.extract_metrics
                  THEN [loc |-> loc, parameter_count |-> 0,
                        cyclomatic_complexity |-> EstimateComplexity(method_code),
                        external_calls |-> CountExternalCalls(method_code)]
                  ELSE EmptyDict,
              granularity |-> "method"]

\* The size check of _extract_class_from_ast, which never skips a class.
ClassTooLargeNever(slicer, loc) == FALSE

\* The size check of _extract_class_from_ast.
ClassTooLarge(slicer, loc) == loc > slicer.max_class_loc

\* _extract_class_from_ast
ExtractClassFromAst(slicer, node, source_code, file_path) ==
    LET class_name == node.name
        class_code == ExtractClassCodeByName(source_code, class_name)
        loc == CountLoc(class_code)
        infos == [i \in DOMAIN node.methods |->
                    ExtractMethodFromAst(slicer, node.methods[i], class_code,
                                         file_path, class_name)]
        methods == SelectSeq(infos, LAMBDA method_info :
                      /\ method_info.type # PyNone
                      /\ Get(method_info.metrics, "loc", 0) >= slicer.min_method_loc)
        method_count == Len(node.methods)
        field_count == node.fields
        getter_setter_count == CountGettersSetters(methods)
    IN  IF class_code = NoText THEN NoUnit
        ELSE IF ClassTooLarge(slicer, loc) THEN NoUnit
        ELSE [type |-> "class", name |-> class_name, code |-> class_code,
              file_path |-> file_path, methods |-> methods,
              metrics |->
                  IF slicer.extract_metrics
                  THEN [loc |-> loc, method_count |-> method_count,
                        field_count |-> field_count,
                        is_abstract |-> "abstract" \in node.modifiers,
                        getter_setter_ratio |->
                            IF method_count > 0
                            THEN [num |-> getter_setter_count, den |-> method_count]
                            ELSE ZeroRatio]
                  ELSE EmptyDict,
              granularity |-> "class"]

\* _extract_methods_regex that skips every name beginning with get, set or
\* is.
ExtractMethodsRegexAtSkipsPrefixed(slicer, source_code, file_path) ==
    LET kept == SelectSeq(MethodMatches(source_code), LAMBDA start_pos :
                    LET method_name == MethodHeaderName(source_code[start_pos])
                        method_code == ExtractBlock(source_code, start_pos)
                    IN  /\ ~StartsWith(method_name, "get")
                        /\ ~StartsWith(method_name, "set")
                        /\ ~StartsWith(method_name, "is")
                        /\ method_code # NoText
                        /\ CountLoc(method_code) >= slicer.min_method_loc)
    IN  [i \in DOMAIN kept |->
            LET method_code == ExtractBlock(source_code, kept[i])
            IN  [start_pos |-> kept[i],
                 unit |-> [type |-> "method",
                           name |-> MethodHeaderName(source_code[kept[i]]),
                           code |-> method_code, file_path |-> file_path,
                           parent_class |-> PyNone,
                           metrics |-> IF slicer.extract_metrics
                                       THEN [loc |-> CountLoc(method_code)]
                                       ELSE EmptyDict,
                           granularity |-> "method"]]]

\* _extract_methods_regex, each unit with the position its match starts at.
ExtractMethodsRegexAt(slicer, source_code, file_path) ==
    LET kept == SelectSeq(MethodMatches(source_code), LAMBDA start_pos :
                    LET method_name == MethodHeaderName(source_code[start_pos])
                        method_code == ExtractBlock(source_code, start_pos)
                    IN  /\ method_name \notin {"get", "set", "is"}
                        /\ method_code # NoText
                        /\ CountLoc(method_code) >= slicer.min_method_loc)
    IN  [i \in DOMAIN kept |->
            LET method_code == ExtractBlock(source_code, kept[i])
            IN  [start_pos |-> kept[i],
                 unit |-> [type |-> "method",
                           name |-> MethodHeaderName(source_code[kept[i]]),
                           code |-> method_code, file_path |-> file_path,
                           parent_class |-> PyNone,
                           metrics |-> IF slicer.extract_metrics
                                       THEN [loc |-> CountLoc(method_code)]
                                       ELSE EmptyDict,
                           granularity |-> "method"]]]

\* _extract_methods_regex
ExtractMethodsRegex(slicer, source_code, file_path) ==
    LET at == ExtractMethodsRegexAt(slicer, source_code, file_path)
    IN  [i \in DOMAIN at |-> at[i].unit]

\* _extract_classes_regex
ExtractClassesRegex(slicer, source_code, file_path) ==
    LET kept == SelectSeq(ClassMatches(source_code), LAMBDA start_pos :
                    LET class_code == ExtractBlock(source_code, start_pos)
                    IN  /\ class_code # NoText
                        /\ CountLoc(class_code) <= slicer.max_class_loc)
    IN  [i \in DOMAIN kept |->
            LET class_code == ExtractBlock(source_code, kept[i])
                class_methods == ExtractMethodsRegex(slicer, class_code, file_path)
                metrics == IF slicer.extract_metrics
                           THEN [loc |-> CountLoc(class_code)] ELSE EmptyDict
            IN  [type |-> "class",
                 name |-> ClassHeaderName(source_code[kept[i]]),
                 code |-> class_code, file_path |-> file_path,
                 methods |-> class_methods,
                 metrics |-> IF class_methods # <<>>
                             THEN Put(metrics, "method_count", Len(class_methods))
                             ELSE metrics,
                 granularity |-> "class"]]

\* slice_code that also runs the method pattern over a text the parser
\* accepted.
SliceCodeMixed(slicer, source_code, file_path) ==
    LET tree == JavaParse(source_code)
        class_infos == [i \in DOMAIN tree.classes |->
                          ExtractClassFromAst(slicer, tree.classes[i],
                                              source_code, file_path)]
    IN  [file_path |-> file_path,
         classes |-> IF tree.status = "ok"
                     THEN SelectSeq(class_infos, LAMBDA class_info :
                                        class_info.type # PyNone)
                     ELSE ExtractClassesRegex(slicer, source_code, file_path),
         methods |-> ExtractMethodsRegex(slicer, source_code, file_path),
         total_loc |-> CountLoc(source_code)]

\* slice_code: the classes of the tree, or, when the parser raised, what
\* the two patterns find in the whole text.
SliceCode(slicer, source_code, file_path) ==
    LET tree == JavaParse(source_code)
        class_infos == [i \in DOMAIN tree.classes |->
                          ExtractClassFromAst(slicer, tree.classes[i],
                                              source_code, file_path)]
    IN  IF tree.status = "ok"
        THEN [file_path |-> file_path,
              classes |-> SelectSeq(class_infos, LAMBDA class_info :
                                        class_info.type # PyNone),
              methods |-> <<>>,
              total_loc |-> CountLoc(source_code)]
        ELSE [file_path |-> file_path,
              classes |-> ExtractClassesRegex(slicer, source_code, file_path),
              methods |-> ExtractMethodsRegex(slicer, source_code, file_path),
              total_loc |-> CountLoc(source_code)]

(***************************************************************************)
(* debt_detector.py -- LocalizationAgent, ExplanationAgent                 *)
(***************************************************************************)

\* 1-based index of the first line satisfying P, 0 when there is none.
FirstLine(lines, P(_)) ==
    IF \E i \in DOMAIN lines : P(lines[i])
    THEN CHOOSE i \in DOMAIN lines :
            P(lines[i]) /\ \A j \in 1..(i - 1) : ~P(lines[j])
    ELSE 0

\* re.search(pattern, line) of the fallback: "class\s+<name>" for a class,
\* "\s+<name>\s*\(" otherwise; a header token declaring the name matches.
HeaderInLine(type, name, line) ==
    IF type = "class"
    THEN \E i \in DOMAIN line :
            line[i] \in ClassHeaders /\ ClassHeaderName(line[i]) = name
    ELSE \E i \in DOMAIN line :
            line[i] \in MethodHeaders /\ MethodHeaderName(line[i]) = name

\* localize with the end line of an exact match one line later.
LocalizeEndOneLater(debt_result, source_file_content) ==
    LET code_snippet == Get(debt_result, "code", NoText)
        name == Get(debt_result, "name", "")
        file_path == Get(debt_result, "file_path", "unknown")
    IN  IF code_snippet = NoText \/ source_file_content = NoText
        THEN Put(debt_result, "location",
                 [error |-> "Missing code or source file"])
        ELSE
            LET lines == SplitOn(source_file_content, NL)
                snippet_lines == SplitOn(StripWs(code_snippet), NL)
                first_line == StripWs(snippet_lines[1])
                Exact(line) == IsSubstring(first_line, StripWs(line))
                start_line == FirstLine(lines, Exact)
                Header(line) ==
                    HeaderInLine(Get(debt_result, "type", PyNone), name, line)
                approx_line == FirstLine(lines, Header)
            IN  IF start_line # 0 THEN
                    Put(debt_result, "location",
                        [start_line |-> start_line,
                         end_line |-> start_line + Len(snippet_lines),
                         file_path |-> file_path])
                ELSE IF approx_line # 0 THEN
                    Put(debt_result, "location",
                        [start_line |-> approx_line,
                         end_line |-> approx_line + Len(snippet_lines),
                         file_path |-> file_path,
                         approximate |-> TRUE])
                ELSE IF "location" \in DOMAIN debt_result THEN debt_result
                ELSE Put(debt_result, "location",
                         [error |-> "Could not localize code",
                          file_path |-> file_path])

\* localize
Localize(debt_result, source_file_content) ==
    LET code_snippet == Get(debt_result, "code", NoText)
        name == Get(debt_result, "name", "")
        file_path == Get(debt_result, "file_path", "unknown")
    IN  IF code_snippet = NoText \/ source_file_content = NoText
        THEN Put(debt_result, "location",
                 [error |-> "Missing code or source file"])
        ELSE
            LET lines == SplitOn(source_file_content, NL)
                snippet_lines == SplitOn(StripWs(code_snippet), NL)
                first_line == StripWs(snippet_lines[1])
                Exact(line) == IsSubstring(first_line, StripWs(line))
                start_line == FirstLine(lines, Exact)
                Header(line) ==
                    HeaderInLine(Get(debt_result, "type", PyNone), name, line)
                approx_line == FirstLine(lines, Header)
            IN  IF start_line # 0 THEN
                    Put(debt_result, "location",
                        [start_line |-> start_line,
                         end_line |-> start_line + Len(snippet_lines) - 1,
                         file_path |-> file_path])
                ELSE IF approx_line # 0 THEN
                    Put(debt_result, "location",
                        [start_line |-> approx_line,
                         end_line |-> approx_line + Len(snippet_lines),
                         file_path |-> file_path,
                         approximate |-> TRUE])
                ELSE IF "location" \in DOMAIN debt_result THEN debt_result
                ELSE Put(debt_result, "location",
                         [error |-> "Could not localize code",
                          file_path |-> file_path])

\* explain: the agent's text is opaque here; its reply is one fixed text.
Explain(debt_result) ==
    LET debt_type == Get(debt_result, "debt_type", PyNone)
    IN  IF debt_type = PyNone \/ debt_type = "No Smell"
        THEN Put(debt_result, "explanation", PyNone)
        ELSE Put(debt_result, "explanation", "explanation")

\* suggest_fix: as explain.
SuggestFix(debt_result) ==
    LET debt_type == Get(debt_result, "debt_type", PyNone)
    IN  IF debt_type = PyNone \/ debt_type = "No Smell"
        THEN Put(debt_result, "fix_suggestion", PyNone)
        ELSE Put(debt_result, "fix_suggestion", "fix")

(***************************************************************************)
(* debt_detector.py -- construction of the detectors                       *)
(***************************************************************************)
\* ClassDebtDetector.__init__ reads self.timeout (line 54), which no line
\* assigns (line 44 is commented out): it raises AttributeError.
ClassDebtDetectorInit(agent_config) ==
    [ok |-> FALSE, error |-> "AttributeError: timeout"]

\* MethodDebtDetector.__init__ completes; the agent handle is built lazily.
MethodDebtDetectorInit(agent_config) ==
    [ok |-> TRUE, detector |-> [installed |-> TRUE, _agent |-> PyNone]]

\* self.class_detector = None, self.method_detector = None
NoDetector == [installed |-> FALSE, _agent |-> PyNone]

(***************************************************************************)
(* SpecConf: the detectors applied to bounded inputs                       *)
(***************************************************************************)
ReplyChars == {"0", "1", "2", "3", "4", "x", " "}

ReplyTexts == SeqsUpTo(ReplyChars, MaxTextLen)

Responses == {Reply(t) : t \in ReplyTexts} \cup {NoReply}

Ratios == {[num |-> 1, den |-> 10], [num |-> 3, den |-> 5],
           [num |-> 2, den |-> 3], [num |-> 4, den |-> 5],
           [num |-> 9, den |-> 10]}

ConfClassMetrics ==
    {[loc |-> l, method_count |-> m, getter_setter_ratio |-> r] :
        l \in {300, 301, 500, 501, 600}, m \in {15, 16, 20, 21, 25},
        r \in Ratios}
    \cup {EmptyDict}

ConfMethodMetrics ==
    {[loc |-> l, cyclomatic_complexity |-> c, external_calls |-> e] :
        l \in {14, 15, 20, 24, 25}, c \in {9, 10, 12, 14, 15},
        e \in {4, 5, 6, 7}}
    \cup {EmptyDict}

ConfUnits(gran) ==
    {[name |-> "U", metrics |-> m] :
        m \in IF gran = "class" THEN ConfClassMetrics ELSE ConfMethodMetrics}

FnIdle == [pc |-> "off"]

CoIdle == [pc |-> "off"]

RunIdle == [pc |-> "off"]

SlIdle == [pc |-> "off"]

RpIdle == [pc |-> "off"]

InitConf ==
    /\ \E g \in {"class", "method"} : \E u \in ConfUnits(g) : \E r \in Responses :
          fn = [pc |-> "input", gran |-> g, unit |-> u, response |-> r]
    /\ co = CoIdle
    /\ run = RunIdle
    /\ sl = SlIdle
    /\ rp = RpIdle

\* detect(unit) with the reply the agent gave.
ApplyDetect ==
    /\ fn.pc = "input"
    /\ fn' = [pc |-> "applied", gran |-> fn.gran, unit |-> fn.unit,
              response |-> fn.response,
              result |-> Detect(fn.gran, fn.unit, fn.response)]
    /\ UNCHANGED <<co, run, sl, rp>>

NextConf == ApplyDetect

SpecConf == InitConf /\ [][NextConf]_vars

(***************************************************************************)
(* The slicer applied to source texts                                      *)
(***************************************************************************)
MaxLines == 4       \* lines of a source text

\* The lines a source text is made of.
SourceLines ==
    {<<"public class A", "{">>,
     <<"class B", "{">>,
     <<"class B", "{", " ", "public void f()", "{", "int x;", "}", " ", "}">>,
     <<"public void f()", "{">>,
     <<" ", "public int getX()", "{", "int x;", "}">>,
     <<" ", "public int get()", "{", "int x;", "}">>,
     <<" ", "int x;">>,
     <<"}">>,
     <<"//", "}">>}

JoinLines(lines) == Flatten([i \in DOMAIN lines |-> lines[i] \o <<NL>>])

SourceTexts ==
    {t \in {JoinLines(ls) : ls \in SeqsUpTo(SourceLines, MaxLines)} :
        JavaParse(t).status # "unmodelled"}

\* ProgramSlicerAgent(min_method_loc, max_class_loc, extract_metrics)
Slicers ==
    [min_method_loc : {1, 3}, max_class_loc : {2, 1000},
     extract_metrics : BOOLEAN]

InitSlice ==
    /\ \E s \in Slicers : \E t \in SourceTexts :
          sl = [pc |-> "input", slicer |-> s, source_code |-> t]
    /\ fn = FnIdle
    /\ co = CoIdle
    /\ run = RunIdle
    /\ rp = RpIdle

\* slice_code(source_code, file_path)
Slice ==
    /\ sl.pc = "input"
    /\ sl' = [pc |-> "sliced", slicer |-> sl.slicer,
              source_code |-> sl.source_code,
              result |-> SliceCode(sl.slicer, sl.source_code, "F.java"),
              standalone_at |->
                  IF JavaParse(sl.source_code).status = "ok" THEN <<>>
                  ELSE LET at == ExtractMethodsRegexAt(sl.slicer,
                                     sl.source_code, "F.java")
                       IN  [i \in DOMAIN at |-> at[i].start_pos]]
    /\ UNCHANGED <<fn, co, run, rp>>

NextSlice == Slice

SpecSlice == InitSlice /\ [][NextSlice]_vars

(***************************************************************************)
(* SpecBlock: one call of _extract_block                                   *)
(***************************************************************************)
MaxBlockLen == 4    \* characters of the text given to _extract_block

\* The texts: every sequence of the characters the scanner tells apart.
BlockTexts == SeqsUpTo({"{", "}", DQ, SQ, BS, "x"}, MaxBlockLen)

InitBlock ==
    /\ \E t \in BlockTexts : \E p \in 1..(Len(t) + 1) :
          sl = [pc |-> "block_input", source_code |-> t, start_pos |-> p]
    /\ fn = FnIdle
    /\ co = CoIdle
    /\ run = RunIdle
    /\ rp = RpIdle

\* _extract_block(source_code, start_pos)
ApplyExtractBlock ==
    /\ sl.pc = "block_input"
    /\ sl' = [pc |-> "block_done", source_code |-> sl.source_code,
              start_pos |-> sl.start_pos,
              block |-> ExtractBlock(sl.source_code, sl.start_pos)]
    /\ UNCHANGED <<fn, co, run, rp>>

NextBlock == ApplyExtractBlock

SpecBlock == InitBlock /\ [][NextBlock]_vars

(***************************************************************************)
(* coordinator.py -- DebtDetectionCoordinator                              *)
(***************************************************************************)
MaxClasses == 2     \* class units of a sliced file
MaxMethods == 2     \* method units of a sliced file, standalone and nested
PoolSize == 4       \* ThreadPoolExecutor(max_workers=4)

\* __init__ and _initialize_agents: the coordinator built from config, or
\* the exception that leaves the constructor.
NewCoordinator(config) ==
    LET cd == IF config.class_enabled THEN ClassDebtDetectorInit(config)
              ELSE [ok |-> TRUE, detector |-> NoDetector]
        md == IF config.method_enabled THEN MethodDebtDetectorInit(config)
              ELSE [ok |-> TRUE, detector |-> NoDetector]
    IN  IF ~cd.ok THEN [pc |-> "raised", config |-> config, error |-> cd.error]
        ELSE [pc |-> "ready", config |-> config,
              class_detector |-> cd.detector,
              method_detector |-> md.detector,
              localizer |-> config.localization_enabled,
              explainer |-> config.explanation_enabled,
              fix_suggester |-> config.fix_suggestion_enabled,
              parallel_detection |-> config.parallel_detection,
              min_confidence |-> config.min_confidence,
              agents_created |-> 0]

\* The batches analyze_file dispatches, in order (lines 109-125): each is
\* one call of _detect_class_debts or _detect_method_debts.
RECURSIVE NestedBatches(_)
NestedBatches(classes) ==
    IF classes = <<>> THEN <<>>
    ELSE LET class_methods == Get(Head(classes), "methods", <<>>)
         IN  (IF class_methods # <<>>
              THEN <<[gran |-> "method", units |-> class_methods]>>
              ELSE <<>>)
             \o NestedBatches(Tail(classes))

BatchPlanMerged(c, sliced_data) ==
    LET classes == Get(sliced_data, "classes", <<>>)
        methods == Get(sliced_data, "methods", <<>>)
        all == methods \o Flatten([i \in DOMAIN classes |->
                                      Get(classes[i], "methods", <<>>)])
    IN  (IF c.class_detector.installed /\ classes # <<>>
         THEN <<[gran |-> "class", units |-> classes]>> ELSE <<>>)
        \o (IF c.method_detector.installed /\ all # <<>>
            THEN <<[gran |-> "method", units |-> all]>> ELSE <<>>)

BatchPlan(c, sliced_data) ==
    LET classes == Get(sliced_data, "classes", <<>>)
        methods == Get(sliced_data, "methods", <<>>)
    IN  (IF c.class_detector.installed /\ classes # <<>>
         THEN <<[gran |-> "class", units |-> classes]>> ELSE <<>>)
        \o (IF c.method_detector.installed /\ methods # <<>>
            THEN <<[gran |-> "method", units |-> methods]>> ELSE <<>>)
        \o (IF c.method_detector.installed THEN NestedBatches(classes)
            ELSE <<>>)

\* [r for r in results if r.get('label') != '0']
RemoveNoSmell(results) ==
    LET Smelly(r) == Get(r, "label", PyNone) # "0"
    IN  SelectSeq(results, Smelly)

\* [d for d in all_detections if d.get('confidence', 0) >= min_confidence]
ConfidenceFilterStrict(all_detections, min_confidence) ==
    LET Above(d) == Get(d, "confidence", 0) > min_confidence
    IN  SelectSeq(all_detections, Above)

ConfidenceFilterOff(all_detections, min_confidence) == all_detections

ConfidenceFilterSkipsFirst(all_detections, min_confidence) ==
    LET Above(d) == Get(d, "confidence", 0) >= min_confidence
        kept == SelectSeq(all_detections, Above)
    IN  IF kept = <<>> THEN kept ELSE Tail(kept)

\* The filter that lets every result with an error entry through.
ConfidenceFilterKeepsErrors(all_detections, min_confidence) ==
    LET Kept(d) == Get(d, "confidence", 0) >= min_confidence
                   \/ "error" \in DOMAIN d
    IN  SelectSeq(all_detections, Kept)

ConfidenceFilter(all_detections, min_confidence) ==
    LET Above(d) == Get(d, "confidence", 0) >= min_confidence
    IN  SelectSeq(all_detections, Above)

\* _post_process that leaves out the detections it could not localize.
PostProcessDropsUnlocalized(c, detections, source_content) ==
    LET all == [i \in DOMAIN detections |->
                    LET d0 == detections[i]
                        d1 == IF c.localizer THEN Localize(d0, source_content) ELSE d0
                        d2 == IF c.explainer THEN Explain(d1) ELSE d1
                    IN  IF c.fix_suggester THEN SuggestFix(d2) ELSE d2]
    IN  SelectSeq(all, LAMBDA d : "error" \notin DOMAIN Get(d, "location", EmptyDict))

\* _post_process: localize, explain, suggest a fix, for each detection.
PostProcess(c, detections, source_content) ==
    [i \in DOMAIN detections |->
        LET d0 == detections[i]
            d1 == IF c.localizer THEN Localize(d0, source_content) ELSE d0
            d2 == IF c.explainer THEN Explain(d1) ELSE d1
        IN  IF c.fix_suggester THEN SuggestFix(d2) ELSE d2]

\* _generate_summary
CountIf(detections, P(_)) == Cardinality({i \in DOMAIN detections : P(detections[i])})

GenerateSummary(detections) ==
    LET TypeOf(d) == Get(d, "debt_type", "Unknown")
        types == {TypeOf(detections[i]) : i \in DOMAIN detections}
        High(d) == Get(d, "confidence", 0) >= 80
    IN  [total_debts |-> Len(detections),
         by_type |-> [t \in types |->
                        Cardinality({i \in DOMAIN detections :
                                        TypeOf(detections[i]) = t})],
         by_granularity |->
            [g \in {"class", "method"} |->
                Cardinality({i \in DOMAIN detections :
                                Get(detections[i], "granularity", "unknown") = g})],
         high_confidence |-> CountIf(detections, High)]

\* The tail of analyze_file, with total_detections counted after the filter.
FileAnalysisCountsFiltered(c, sliced_data, source_file_content, all_detections) ==
    LET filtered == ConfidenceFilter(all_detections, c.min_confidence)
        processed == IF source_file_content # NoText
                     THEN PostProcess(c, filtered, source_file_content)
                     ELSE filtered
    IN  [file_path |-> Get(sliced_data, "file_path", "unknown"),
         total_detections |-> Len(filtered),
         filtered_detections |-> Len(processed),
         debts |-> processed,
         summary |-> GenerateSummary(processed)]

\* The tail of analyze_file (lines 127-147): the FileAnalysis returned.
FileAnalysis(c, sliced_data, source_file_content, all_detections) ==
    LET filtered == ConfidenceFilter(all_detections, c.min_confidence)
        processed == IF source_file_content # NoText
                     THEN PostProcess(c, filtered, source_file_content)
                     ELSE filtered
    IN  [file_path |-> Get(sliced_data, "file_path", "unknown"),
         total_detections |-> Len(all_detections),
         filtered_detections |-> Len(processed),
         debts |-> processed,
         summary |-> GenerateSummary(processed)]

(***************************************************************************)
(* Spec: one coordinator, one analyze_file call                            *)
(***************************************************************************)
Configs ==
    [class_enabled : BOOLEAN, method_enabled : BOOLEAN,
     localization_enabled : {TRUE}, explanation_enabled : {TRUE},
     fix_suggestion_enabled : {FALSE},
     parallel_detection : BOOLEAN, min_confidence : {0, 50, 80}]

\* The sliced files analyze_file is given: up to MaxClasses class units and
\* up to MaxMethods method units, standalone or nested, numbered in order.
MethodNames == <<"m1", "m2", "m3", "m4", "m5", "m6">>

ClassNames == <<"C1", "C2", "C3", "C4">>

MethodMetrics(id) ==
    CASE id % 3 = 1 -> [loc |-> 20, parameter_count |-> 1,
                        cyclomatic_complexity |-> 12, external_calls |-> 2]
      [] id % 3 = 2 -> [loc |-> 30, parameter_count |-> 0,
                        cyclomatic_complexity |-> 3, external_calls |-> 7]
      [] OTHER -> [loc |-> 5, parameter_count |-> 2,
                   cyclomatic_complexity |-> 2, external_calls |-> 5]

MethodUnit(id, parent_class) ==
    [type |-> "method", name |-> MethodNames[id],
     code |-> <<"public void f()", "{", NL, "int x;", NL, "}">>,
     file_path |-> "F.java", parent_class |-> parent_class,
     metrics |-> MethodMetrics(id), granularity |-> "method"]

ClassUnit(c, methods) ==
    [type |-> "class", name |-> ClassNames[c],
     code |-> <<"public class A", "{", NL, "}">>,
     file_path |-> "F.java", methods |-> methods,
     metrics |-> [loc |-> 600, method_count |-> Len(methods),
                  field_count |-> 1, is_abstract |-> FALSE,
                  getter_setter_ratio |-> ZeroRatio],
     granularity |-> "class"]

\* A shape: the number of standalone methods and of each class's methods.
Shapes ==
    {sh \in [standalone : 0..MaxMethods, nested : SeqsUpTo(0..MaxMethods, MaxClasses)] :
        sh.standalone + SeqSum(sh.nested) <= MaxMethods}

SlicedOf(sh) ==
    LET Before(c) == sh.standalone + SeqSum(SubSeq(sh.nested, 1, c - 1))
    IN  [file_path |-> "F.java",
         classes |-> [c \in DOMAIN sh.nested |->
                        ClassUnit(c, [j \in 1..sh.nested[c] |->
                                        MethodUnit(Before(c) + j, ClassNames[c])])],
         methods |-> [j \in 1..sh.standalone |-> MethodUnit(j, PyNone)],
         total_loc |-> 1]

SlicedInputs == {SlicedOf(sh) : sh \in Shapes}

SourceInputs ==
    {NoText,
     <<"public class A", "{", NL, "}">>,
     <<"public class A", "{", NL, "public void f()", "{", NL, "int x;", NL,
       "}", NL, "}">>}

\* What agent.generate_reply does for one unit.
CoResponses ==
    {Reply(<<"0">>), Reply(<<"4">>), Reply(<<"x">>), NoReply, Raises}

NoFuture == [st |-> "pending", saw_none |-> FALSE, response |-> NoReply]

RunInit ==
    [pc |-> "idle", sliced |-> EmptyDict, source |-> NoText, plan |-> <<>>,
     bi |-> 1, all_detections |-> <<>>, results |-> <<>>, responses |-> <<>>,
     k |-> 1, fut |-> <<>>, order |-> <<>>, hist |-> <<>>, out |-> EmptyDict]

Init ==
    /\ \E c \in Configs : co = [pc |-> "new", config |-> c]
    /\ run = RunInit
    /\ fn = FnIdle
    /\ sl = SlIdle
    /\ rp = RpIdle

\* DebtDetectionCoordinator(config)
Construct ==
    /\ co.pc = "new"
    /\ co' = NewCoordinator(co.config)
    /\ UNCHANGED <<run, fn, sl, rp>>

\* analyze_file(sliced_data, source_file_content) is called, with one of
\* the given sliced files.
AnalyzeFileOf(sliced_inputs) ==
    /\ co.pc = "ready"
    /\ run.pc = "idle"
    /\ \E sd \in sliced_inputs : \E src \in SourceInputs :
          run' = [run EXCEPT !.pc = "next", !.sliced = sd, !.source = src,
                             !.plan = BatchPlan(co, sd)]
    /\ UNCHANGED <<co, fn, sl, rp>>

AnalyzeFile == AnalyzeFileOf(SlicedInputs)

Batch == run.plan[run.bi]

\* _detect_*_debts is entered for the next batch: the pool is created and
\* every unit submitted, or the sequential loop starts.
BatchStart ==
    /\ run.pc = "next"
    /\ run.bi <= Len(run.plan)
    /\ IF co.parallel_detection /\ Len(Batch.units) > 1
       THEN run' = [run EXCEPT !.pc = "pool",
                               !.fut = [i \in DOMAIN Batch.units |-> NoFuture],
                               !.order = <<>>]
       ELSE run' = [run EXCEPT !.pc = "seq", !.k = 1, !.results = <<>>,
                               !.responses = <<>>]
    /\ UNCHANGED <<co, fn, sl, rp>>

\* The detector's _get_agent on a detector whose handle is unset builds it.
AgentBuilt(c, gran, was_none) ==
    LET field == IF gran = "class" THEN "class_detector" ELSE "method_detector"
    IN  IF was_none
        THEN [c EXCEPT ![field]._agent = "agent",
                       !.agents_created = @ + 1]
        ELSE c

\* The end of _detect_*_debts: "No Smell" results removed, the rest
\* appended to all_detections; the batch is recorded in hist.
BatchReturn(r, results, responses) ==
    [r EXCEPT !.pc = "next", !.bi = @ + 1,
              !.all_detections = @ \o RemoveNoSmell(results),
              !.results = <<>>, !.responses = <<>>, !.fut = <<>>,
              !.order = <<>>,
              !.hist = Append(@, [gran |-> r.plan[r.bi].gran,
                                  units |-> r.plan[r.bi].units,
                                  responses |-> responses,
                                  raw |-> results])]

\* One turn of the sequential loop: detect(unit) returns a result or
\* raises, the agent answering with one of the given responses.
SeqDetectOf(agent_responses) ==
    /\ run.pc = "seq"
    /\ \E resp \in agent_responses :
          LET unit == Batch.units[run.k]
              field == IF Batch.gran = "class" THEN "class_detector"
                       ELSE "method_detector"
              results == Append(run.results, Detect(Batch.gran, unit, resp))
              responses == Append(run.responses, resp)
          IN  /\ co' = AgentBuilt(co, Batch.gran, co[field]._agent = PyNone)
              /\ IF resp.kind = "raise"
                 THEN run' = [run EXCEPT !.pc = "raised"]
                 ELSE IF run.k = Len(Batch.units)
                 THEN run' = BatchReturn(run, results, responses)
                 ELSE run' = [run EXCEPT !.k = @ + 1, !.results = results,
                                         !.responses = responses]
    /\ UNCHANGED <<fn, sl, rp>>

SeqDetect == SeqDetectOf(CoResponses)

Running == {i \in DOMAIN run.fut : run.fut[i].st = "running"}

Pending == {i \in DOMAIN run.fut : run.fut[i].st = "pending"}

\* A worker starts on the oldest queued unit whatever the number of
\* invocations in progress.
WorkerStartUnbounded ==
    /\ run.pc = "pool"
    /\ Pending # {}
    /\ LET i == CHOOSE j \in Pending : \A h \in Pending : j <= h
           field == IF Batch.gran = "class" THEN "class_detector"
                    ELSE "method_detector"
       IN  run' = [run EXCEPT !.fut[i] =
                      [st |-> "running",
                       saw_none |-> co[field]._agent = PyNone,
                       response |-> NoReply]]
    /\ UNCHANGED <<co, fn, sl, rp>>

\* A free worker of the pool takes the oldest queued unit and enters
\* detect: it reads the detector's agent handle.
WorkerStart ==
    /\ run.pc = "pool"
    /\ Pending # {}
    /\ Cardinality(Running) < PoolSize
    /\ LET i == CHOOSE j \in Pending : \A h \in Pending : j <= h
           field == IF Batch.gran = "class" THEN "class_detector"
                    ELSE "method_detector"
       IN  run' = [run EXCEPT !.fut[i] =
                      [st |-> "running",
                       saw_none |-> co[field]._agent = PyNone,
                       response |-> NoReply]]
    /\ UNCHANGED <<co, fn, sl, rp>>

\* A worker's detect call ends, with a result or an exception.
WorkerFinishOf(agent_responses) ==
    /\ run.pc = "pool"
    /\ \E i \in Running : \E resp \in agent_responses :
          /\ co' = AgentBuilt(co, Batch.gran, run.fut[i].saw_none)
          /\ run' = [run EXCEPT !.fut[i].st = "done",
                                !.fut[i].response = resp,
                                !.order = Append(@, i)]
    /\ UNCHANGED <<fn, sl, rp>>

WorkerFinish == WorkerFinishOf(CoResponses)

\* The dispatch call returns as soon as one future is done, with the
\* results completed so far.
PoolJoinStreaming ==
    /\ run.pc = "pool"
    /\ \E i \in DOMAIN run.fut : run.fut[i].st = "done"
    /\ LET responses == [i \in DOMAIN run.fut |-> run.fut[i].response]
           results == [n \in DOMAIN run.order |->
                          Detect(Batch.gran, Batch.units[run.order[n]],
                                 responses[run.order[n]])]
       IN  IF \E i \in DOMAIN run.fut : responses[i].kind = "raise"
           THEN run' = [run EXCEPT !.pc = "raised"]
           ELSE run' = BatchReturn(run, results, responses)
    /\ UNCHANGED <<co, fn, sl, rp>>

\* Every future is done: as_completed has yielded them in completion order
\* and the pool is shut down.  f.result() re-raises a worker's exception.
PoolJoin ==
    /\ run.pc = "pool"
    /\ \A i \in DOMAIN run.fut : run.fut[i].st = "done"
    /\ LET responses == [i \in DOMAIN run.fut |-> run.fut[i].response]
           results == [n \in DOMAIN run.order |->
                          Detect(Batch.gran, Batch.units[run.order[n]],
                                 responses[run.order[n]])]
       IN  IF \E i \in DOMAIN run.fut : responses[i].kind = "raise"
           THEN run' = [run EXCEPT !.pc = "raised"]
           ELSE run' = BatchReturn(run, results, responses)
    /\ UNCHANGED <<co, fn, sl, rp>>

\* No batch is left: filtering, post-processing, summary; the call returns.
AnalyzeReturn ==
    /\ run.pc = "next"
    /\ run.bi > Len(run.plan)
    /\ run' = [run EXCEPT !.pc = "returned",
                          !.out = FileAnalysis(co, run.sliced, run.source,
                                               run.all_detections)]
    /\ UNCHANGED <<co, fn, sl, rp>>

Next ==
    \/ Construct
    \/ AnalyzeFile
    \/ BatchStart
    \/ SeqDetect
    \/ WorkerStart
    \/ WorkerFinish
    \/ PoolJoin
    \/ AnalyzeReturn

Spec == Init /\ [][Next]_vars

(***************************************************************************)
(* SpecPool: one batch, larger than the pool                               *)
(***************************************************************************)
MaxBatch == 5       \* units of the batch

\* Coordinators with the method detector alone.
PoolConfigs ==
    {c \in Configs : ~c.class_enabled /\ c.method_enabled /\ c.min_confidence = 50}

\* Sliced files with standalone methods only.
PoolSlicedInputs ==
    {[file_path |-> "F.java", classes |-> <<>>,
      methods |-> [i \in 1..n |-> MethodUnit(i, PyNone)],
      total_loc |-> 6 * n] : n \in 1..MaxBatch}

PoolResponses == {Reply(<<"4">>), NoReply}

InitPool ==
    /\ \E c \in PoolConfigs : co = [pc |-> "new", config |-> c]
    /\ run = RunInit
    /\ fn = FnIdle
    /\ sl = SlIdle
    /\ rp = RpIdle

NextPool ==
    \/ Construct
    \/ AnalyzeFileOf(PoolSlicedInputs)
    \/ BatchStart
    \/ SeqDetectOf(PoolResponses)
    \/ WorkerStart
    \/ WorkerFinishOf(PoolResponses)
    \/ PoolJoin
    \/ AnalyzeReturn

SpecPool == InitPool /\ [][NextPool]_vars

(***************************************************************************)
(* SpecLoc: post-processing applied to detections that carry code          *)
(***************************************************************************)
MaxLocLines == 3    \* lines of the file a detection is localized in

\* The code a detection carries: as the slicer cuts it, with white space
\* before or after it, spaced otherwise than in the file, blank.
LocCodes ==
    {<<"public void f()", "{", NL, "int x;", NL, "}">>,
     <<NL, " ", "public void f()", "{", NL, "}">>,
     <<"public void f()", "{", NL, "}", NL>>,
     <<"public void f()", " ", "{", NL, "}">>,
     <<NL, "public void f()", " ", "{", NL, "}">>,
     <<"public class A", "{", NL, "}">>,
     <<" ", NL>>}

LocDetections ==
    {[type |-> t, name |-> n, code |-> c, file_path |-> "F.java",
      label |-> "4", debt_type |-> "Long Method", confidence |-> 75,
      granularity |-> t] :
        t \in {"class", "method"}, n \in {"f", "A", "g"}, c \in LocCodes}
    \cup {[type |-> "method", name |-> "f", label |-> "4",
           debt_type |-> "Long Method", confidence |-> 75,
           granularity |-> "method"]}

LocLines ==
    {<<"public class A", "{">>,
     <<" ", "public void f()", "{">>,
     <<"public void f()">>,
     <<"int x;">>,
     <<"}">>}

LocSources ==
    {JoinLines(ls) : ls \in SeqsUpTo(LocLines, MaxLocLines)} \cup {NoText}

InitLoc ==
    /\ \E d \in LocDetections : \E src \in LocSources :
       \E more \in {<<>>, <<[type |-> "method", name |-> "g", label |-> "3",
                           debt_type |-> "Feature Envy", confidence |-> 60,
                           granularity |-> "method"]>>} :
       \E c \in PoolConfigs :
          fn = [pc |-> "input", detections |-> <<d>> \o more,
                given |-> <<d>> \o more,
                source_content |-> src, coordinator |-> NewCoordinator(c)]
    /\ co = CoIdle
    /\ run = RunIdle
    /\ sl = SlIdle
    /\ rp = RpIdle

\* _post_process(detections, source_content)
ApplyPostProcess ==
    /\ fn.pc = "input"
    /\ fn' = [fn EXCEPT !.pc = "applied",
                        !.detections = PostProcess(fn.coordinator, fn.detections,
                                                   fn.source_content)]
    /\ UNCHANGED <<co, run, sl, rp>>

NextLoc == ApplyPostProcess

SpecLoc == InitLoc /\ [][NextLoc]_vars

(***************************************************************************)
(* SpecRepo: one run over the files of a repository or of a directory      *)
(*   coordinator.py analyze_repository, _aggregate_repo_summary;           *)
(*   debt_guardian.py analyze_file, analyze_directory, analyze_repository, *)
(*   _aggregate_results.                                                   *)
(***************************************************************************)
MaxFiles == 2       \* files the glob of one run finds

FileNames == <<"F1.java", "F2.java", "F3.java", "F4.java">>

\* What goes wrong with one file before the detectors see it: nothing, the
\* file cannot be read (every open of it raises), or slice_file alone fails
\* (slice_code raises after the file was read, or only its read fails) and
\* the caller's own read succeeds.
FileFaults == {"none", "io", "slicing"}

\* slice_file(file_path) (program_slicer.py 32-49): the sliced data, or
\* the error dict of its except branch.
SliceFile(file_path, fault, sliced) ==
    IF fault = "none" THEN [sliced EXCEPT !.file_path = file_path]
    ELSE [classes |-> <<>>, methods |-> <<>>, error |-> fault]

\* with open(file_path, 'r', encoding='utf-8') as f: f.read()
ReadFile(fault, content) ==
    IF fault = "io" THEN [ok |-> FALSE, error |-> fault]
    ELSE [ok |-> TRUE, content |-> content]

\* The units of an analyze_file call in dispatch order, sequential path.
PlanUnits(c, sliced_data) ==
    LET plan == BatchPlan(c, sliced_data)
    IN  Flatten([b \in DOMAIN plan |->
                    [i \in DOMAIN plan[b].units |->
                        [gran |-> plan[b].gran, unit |-> plan[b].units[i]]]])

\* coordinator.analyze_file as one call (lines 88-147), the agent answering
\* unit u with responses[u.name]: the FileAnalysis, or the exception of a
\* detect call that leaves it.
AnalyzeFileCall(c, sliced_data, source_file_content, responses) ==
    LET units == PlanUnits(c, sliced_data)
        results == [i \in DOMAIN units |->
                       Detect(units[i].gran, units[i].unit,
                              responses[units[i].unit.name])]
        raised == \E i \in DOMAIN units :
                     responses[units[i].unit.name].kind = "raise"
    IN  IF raised THEN [raised |-> TRUE, error |-> "agent"]
        ELSE [raised |-> FALSE,
              out |-> FileAnalysis(c, sliced_data, source_file_content,
                                   RemoveNoSmell(results))]

\* The agent handles the detect calls of one analyze_file call build.
RECURSIVE AgentsBuilt(_, _)
AgentsBuilt(c, units) ==
    IF units = <<>> THEN c
    ELSE LET field == IF Head(units).gran = "class" THEN "class_detector"
                      ELSE "method_detector"
         IN  AgentsBuilt(AgentBuilt(c, Head(units).gran, c[field]._agent = PyNone),
                         Tail(units))

\* One turn of analyze_repository's loop (coordinator.py 281-304).
RepositoryStep(c, repo_results, file_path, fault, sliced, content, responses) ==
    LET sliced_data == SliceFile(file_path, fault, sliced)
        read == ReadFile(fault, content)
        call == AnalyzeFileCall(c, sliced_data, read.content, responses)
        Failed(e) == [repo_results EXCEPT
                        !.file_results = Append(@, [file_path |-> file_path,
                                                    error |-> e])]
    IN  IF ~read.ok THEN Failed(read.error)
        ELSE IF call.raised THEN Failed(call.error)
        ELSE [repo_results EXCEPT
                !.file_results = Append(@, call.out),
                !.analyzed_files = @ + 1,
                !.total_debts = @ + Get(call.out, "filtered_detections", 0)]

\* DebtGuardian.analyze_file(file_path) (debt_guardian.py 51-107).
GuardianAnalyzeFile(c, file_path, fault, sliced, content, responses) ==
    LET sliced_data == SliceFile(file_path, fault, sliced)
        read == ReadFile(fault, content)
        source_content == IF read.ok THEN read.content ELSE NoText
        call == AnalyzeFileCall(c, sliced_data, source_content, responses)
    IN  IF "error" \in DOMAIN sliced_data
        THEN [raised |-> FALSE,
              out |-> [file_path |-> file_path, error |-> sliced_data.error,
                       status |-> "failed"]]
        ELSE IF call.raised THEN call
        ELSE [raised |-> FALSE,
              out |-> Put(Put(Put(call.out, "analysis_time", "time"),
                              "timestamp", "time"),
                          "status", "completed")]

\* One turn of analyze_directory's loop (debt_guardian.py 146-166).
DirectoryStep(c, results, file_path, fault, sliced, content, responses) ==
    LET call == GuardianAnalyzeFile(c, file_path, fault, sliced, content, responses)
    IN  IF call.raised
        THEN [results EXCEPT
                !.failed_files = @ + 1,
                !.file_results = Append(@, [file_path |-> file_path,
                                            error |-> call.error,
                                            status |-> "failed"])]
        ELSE IF Get(call.out, "status", PyNone) = "completed"
        THEN [results EXCEPT !.analyzed_files = @ + 1,
                             !.file_results = Append(@, call.out)]
        ELSE [results EXCEPT !.failed_files = @ + 1,
                             !.file_results = Append(@, call.out)]

\* _aggregate_repo_summary(file_results) (coordinator.py 311-343)
AggregateRepoSummary(file_results) ==
    LET SummaryOf(i) == IF "error" \in DOMAIN file_results[i] THEN EmptyDict
                        ELSE Get(file_results[i], "summary", EmptyDict)
        Total(k) == SeqSum([i \in DOMAIN file_results |-> Get(SummaryOf(i), k, 0)])
        ByType(i) == Get(SummaryOf(i), "by_type", EmptyDict)
        ByGran(i) == Get(SummaryOf(i), "by_granularity", EmptyDict)
        types == UNION {DOMAIN ByType(i) : i \in DOMAIN file_results}
    IN  [total_debts |-> Total("total_debts"),
         by_type |-> [t \in types |->
                        SeqSum([i \in DOMAIN file_results |-> Get(ByType(i), t, 0)])],
         by_granularity |->
            [g \in {"class", "method"} |->
                SeqSum([i \in DOMAIN file_results |-> Get(ByGran(i), g, 0)])],
         high_confidence |-> Total("high_confidence"),
         files_with_debts |->
            Cardinality({i \in DOMAIN file_results :
                            Get(SummaryOf(i), "total_debts", 0) > 0})]

\* _aggregate_results(file_results) (debt_guardian.py 198-241)
AggregateResults(file_results) ==
    LET Completed(i) == Get(file_results[i], "status", PyNone) = "completed"
        DebtsOf(i) == IF Completed(i) THEN Get(file_results[i], "debts", <<>>)
                      ELSE <<>>
        valid_files == Cardinality({i \in DOMAIN file_results : Completed(i)})
        debts == Flatten([i \in DOMAIN file_results |-> DebtsOf(i)])
        TypeOf(d) == Get(d, "debt_type", "Unknown")
        types == {TypeOf(debts[j]) : j \in DOMAIN debts}
        High(d) == Get(d, "confidence", 0) >= 80
    IN  [total_debts |-> Len(debts),
         by_type |-> [t \in types |->
                        Cardinality({j \in DOMAIN debts : TypeOf(debts[j]) = t})],
         by_granularity |->
            [g \in {"class", "method"} |->
                Cardinality({j \in DOMAIN debts :
                                Get(debts[j], "granularity", "unknown") = g})],
         high_confidence_debts |-> CountIf(debts, High),
         files_with_debts |->
            Cardinality({i \in DOMAIN file_results : DebtsOf(i) # <<>>}),
         average_debts_per_file |->
            IF valid_files > 0
            THEN [num |-> Len(debts), den |-> valid_files]
            ELSE ZeroRatio]

\* The coordinators of the runs: the method detector alone, sequential.
RepoConfigs ==
    {c \in Configs : ~c.class_enabled /\ c.method_enabled
                     /\ ~c.parallel_detection /\ c.min_confidence \in {50, 80}}

\* The sliced files slice_code returns: standalone methods only.
RepoSlicedInputs ==
    {[file_path |-> "F.java", classes |-> <<>>,
      methods |-> [i \in 1..n |-> MethodUnit(i, PyNone)],
      total_loc |-> 6 * n] : n \in 0..MaxMethods}

\* What agent.generate_reply does for the unit of each name.
RepoResponses ==
    [{MethodNames[i] : i \in 1..MaxMethods} ->
        {Reply(<<"0">>), Reply(<<"4">>), Raises}]

RepoContent == <<"public void f()", "{", NL, "int x;", NL, "}">>

InitRepo ==
    /\ \E c \in RepoConfigs : co = [pc |-> "new", config |-> c]
    /\ rp = [pc |-> "idle"]
    /\ run = RunIdle
    /\ fn = FnIdle
    /\ sl = SlIdle

\* analyze_repository(repo_path) or analyze_directory(directory) is called:
\* the glob finds the files and the result dict is created.
RepoStart ==
    /\ co.pc = "ready"
    /\ rp.pc = "idle"
    /\ \E entry \in {"analyze_repository", "analyze_directory"} : \E n \in 0..MaxFiles :
          LET files == [i \in 1..n |-> FileNames[i]]
          IN  rp' = [pc |-> "loop", entry |-> entry, files |-> files, i |-> 1,
                     seen |-> <<>>,
                     results |->
                        IF entry = "analyze_repository"
                        THEN [repo_path |-> "repo", total_files |-> Len(files),
                              analyzed_files |-> 0, total_debts |-> 0,
                              file_results |-> <<>>, summary |-> EmptyDict]
                        ELSE [directory |-> "repo", total_files |-> Len(files),
                              analyzed_files |-> 0, failed_files |-> 0,
                              file_results |-> <<>>,
                              aggregate_summary |-> EmptyDict,
                              timestamp |-> "time"]]
    /\ UNCHANGED <<co, run, fn, sl>>

\* One turn of the loop over the files; seen records what happened to the
\* file (its fault, and whether coordinator.analyze_file raised on it).
RepoFile ==
    /\ rp.pc = "loop"
    /\ rp.i <= Len(rp.files)
    /\ \E fault \in FileFaults : \E sliced \in RepoSlicedInputs :
       \E responses \in RepoResponses :
          LET file_path == rp.files[rp.i]
              sliced_data == SliceFile(file_path, fault, sliced)
              analyzed == IF rp.entry = "analyze_repository"
                          THEN fault # "io" ELSE fault = "none"
              call == AnalyzeFileCall(co, sliced_data, RepoContent, responses)
          IN  /\ rp' = [rp EXCEPT
                          !.i = @ + 1,
                          !.seen = Append(@, [fault |-> fault,
                                              raised |-> analyzed /\ call.raised]),
                          !.results =
                             IF rp.entry = "analyze_repository"
                             THEN RepositoryStep(co, @, file_path, fault, sliced,
                                                 RepoContent, responses)
                             ELSE DirectoryStep(co, @, file_path, fault, sliced,
                                                RepoContent, responses)]
              /\ co' = IF analyzed THEN AgentsBuilt(co, PlanUnits(co, sliced_data))
                       ELSE co
    /\ UNCHANGED <<run, fn, sl>>

\* After the loop: the aggregate is computed and the result returned.
RepoReturn ==
    /\ rp.pc = "loop"
    /\ rp.i > Len(rp.files)
    /\ LET file_results == rp.results.file_results
       IN  rp' = [rp EXCEPT
                    !.pc = "returned",
                    !.results =
                       IF rp.entry = "analyze_repository"
                       THEN [@ EXCEPT !.summary = AggregateRepoSummary(file_results)]
                       ELSE [@ EXCEPT !.aggregate_summary =
                                         AggregateResults(file_results)]]
    /\ UNCHANGED <<co, run, fn, sl>>

NextRepo ==
    \/ Construct
    \/ RepoStart
    \/ RepoFile
    \/ RepoReturn

SpecRepo == InitRepo /\ [][NextRepo]_vars

(***************************************************************************)
(* Properties of the detectors (checked under SpecConf)                    *)
(***************************************************************************)
Applied(gran) == fn.pc = "applied" /\ fn.gran = gran

\* C6: for class granularity the confidence of a reply is given by the
\* label and the metrics alone: label 0 gives 0.9; label 1 gives 0.9 if
\* loc > 500 or method_count > 20, else 0.75 if loc > 300 or
\* method_count > 15, else 0.6; label 2 gives 0.9 if the getter/setter
\* ratio is above 0.8, else 0.75 if above 0.6, else 0.6; UNKNOWN gives 0.5.
C6_ClassConfidenceTable ==
    (Applied("class") /\ fn.response.kind = "reply") =>
        LET r == fn.result
            m == fn.unit.metrics
            loc == Get(m, "loc", 0)
            mc == Get(m, "method_count", 0)
            gs == Get(m, "getter_setter_ratio", ZeroRatio)
            tier1 == loc > 500 \/ mc > 20
            tier2 == loc > 300 \/ mc > 15
        IN  /\ r.label = "0" => r.confidence = 90
            /\ (r.label = "1" /\ tier1) => r.confidence = 90
            /\ (r.label = "1" /\ ~tier1 /\ tier2) => r.confidence = 75
            /\ (r.label = "1" /\ ~tier1 /\ ~tier2) => r.confidence = 60
            /\ (r.label = "2" /\ 10 * gs.num > 8 * gs.den) => r.confidence = 90
            /\ (r.label = "2" /\ 10 * gs.num <= 8 * gs.den
                    /\ 10 * gs.num > 6 * gs.den) => r.confidence = 75
            /\ (r.label = "2" /\ 10 * gs.num <= 6 * gs.den) => r.confidence = 60
            /\ r.label = "UNKNOWN" => r.confidence = 50
            /\ (r.label = "1" /\ loc = 500 /\ mc = 20) => r.confidence = 75

\* The scenario of the specification: loc 600, 25 methods, ratio 0.1, Blob.
C6_Witness ==
    /\ Applied("class")
    /\ fn.response.kind = "reply"
    /\ fn.unit.metrics = [loc |-> 600, method_count |-> 25,
                          getter_setter_ratio |-> [num |-> 1, den |-> 10]]
    /\ fn.result.label = "1"
    /\ fn.result.confidence = 90

\* C7: for method granularity the confidence of a reply is given by the
\* label and the metrics alone: label 0 gives 0.9; label 3 gives 0.9 if
\* external_calls >= 7, else 0.75 if >= 5, else 0.6; label 4 gives 0.9 if
\* loc >= 25 or complexity >= 15, else 0.75 if loc >= 15 or
\* complexity >= 10, else 0.6; UNKNOWN gives 0.5.
C7_MethodConfidenceTable ==
    (Applied("method") /\ fn.response.kind = "reply") =>
        LET r == fn.result
            m == fn.unit.metrics
            loc == Get(m, "loc", 0)
            cc == Get(m, "cyclomatic_complexity", 0)
            ext == Get(m, "external_calls", 0)
            tier1 == loc >= 25 \/ cc >= 15
            tier2 == loc >= 15 \/ cc >= 10
        IN  /\ r.label = "0" => r.confidence = 90
            /\ (r.label = "3" /\ ext >= 7) => r.confidence = 90
            /\ (r.label = "3" /\ ext < 7 /\ ext >= 5) => r.confidence = 75
            /\ (r.label = "3" /\ ext < 5) => r.confidence = 60
            /\ (r.label = "4" /\ tier1) => r.confidence = 90
            /\ (r.label = "4" /\ ~tier1 /\ tier2) => r.confidence = 75
            /\ (r.label = "4" /\ ~tier1 /\ ~tier2) => r.confidence = 60
            /\ r.label = "UNKNOWN" => r.confidence = 50

\* The scenario of the specification: loc 20, complexity 12, Long Method.
C7_Witness ==
    /\ Applied("method")
    /\ fn.response.kind = "reply"
    /\ Get(fn.unit.metrics, "loc", 0) = 20
    /\ Get(fn.unit.metrics, "cyclomatic_complexity", 0) = 12
    /\ fn.result.label = "4"
    /\ fn.result.confidence = 75

\* C8: whatever the detector replied (any text, or nothing), the label of
\* the result is one of 0, 1, 2, UNKNOWN for the class detector and one of
\* 0, 3, 4, UNKNOWN for the method detector.
C8_LabelVocabulary ==
    /\ Applied("class") => fn.result.label \in {"0", "1", "2", "UNKNOWN"}
    /\ Applied("method") => fn.result.label \in {"0", "3", "4", "UNKNOWN"}

\* A class reply that names only a method label is normalised to UNKNOWN.
C8_Witness ==
    /\ Applied("class")
    /\ fn.response.kind = "reply"
    /\ Contains(fn.response.content, "3")
    /\ fn.result.label = "UNKNOWN"

(***************************************************************************)
(* Properties of analyze_file (checked under Spec)                         *)
(***************************************************************************)
Returned == run.pc = "returned"

\* The raw results of every batch dispatched so far, in collection order.
Dispatched == Flatten([b \in DOMAIN run.hist |-> run.hist[b].raw])

\* A detection without the fields post-processing adds.
Core(d) ==
    [k \in DOMAIN d \ {"location", "explanation", "fix_suggestion"} |-> d[k]]

CoreSeq(ds) == [i \in DOMAIN ds |-> Core(ds[i])]

IsErrorResult(d) == "error" \in DOMAIN d

\* C1: a failure of the detector invocation for one unit of a batch, an
\* exception raised by the detect call included, never aborts the analysis
\* of its sibling units: analyze_file does not end by raising, in
\* sequential or in parallel dispatch.
C1_DetectorFailureNeverAborts ==
    ~(run.pc = "raised" /\ Len(Batch.units) > 1)

\* C2: when a detector gives no response for one unit of a batch, that unit
\* yields a result with label UNKNOWN and confidence 0.0, and the batch's
\* output before "No Smell" removal has exactly one result per submitted
\* unit, each unit's own.
C2_NoResponseIsUnknownZero ==
    \A b \in DOMAIN run.hist :
        LET h == run.hist[b]
            Own(i) == {n \in DOMAIN h.raw : h.raw[n].name = h.units[i].name}
        IN  /\ Len(h.raw) = Len(h.units)
            /\ \A i \in DOMAIN h.units :
                  /\ Cardinality(Own(i)) = 1
                  /\ \A n \in Own(i) :
                        /\ h.raw[n] = Detect(h.gran, h.units[i], h.responses[i])
                        /\ h.responses[i] = NoReply =>
                              /\ h.raw[n].label = "UNKNOWN"
                              /\ h.raw[n].confidence = 0

\* A batch of two units, the first without a response, the second answered.
C2_Witness ==
    \E b \in DOMAIN run.hist :
        /\ Len(run.hist[b].units) = 2
        /\ run.hist[b].responses[1] = NoReply
        /\ run.hist[b].responses[2] = Reply(<<"4">>)
        /\ \E n \in DOMAIN run.hist[b].raw : run.hist[b].raw[n].label = "4"

MethodBatches == SelectSeq(run.hist, LAMBDA h : h.gran = "method")

ClassBatches == SelectSeq(run.hist, LAMBDA h : h.gran = "class")

AllNested ==
    Flatten([c \in DOMAIN run.sliced.classes |-> run.sliced.classes[c].methods])

\* C4 as claimed: the method units are dispatched as one batch holding all
\* standalone method units together with all methods nested in the classes.
C4_OneMethodBatch ==
    (Returned /\ co.method_detector.installed) =>
        /\ Len(MethodBatches) <= 1
        /\ \A b \in DOMAIN MethodBatches :
              MethodBatches[b].units = run.sliced.methods \o AllNested

\* C4 as amended: when analyze_file returns, the class units were
\* dispatched as one batch if a class detector is installed; with a method
\* detector installed the standalone method units were dispatched as one
\* batch and the methods nested in each class as one further batch per
\* class, in class order; no batch is empty, and together the method
\* batches hold the standalone methods followed by every nested method.
C4_BatchPerClass ==
    Returned =>
        /\ \A b \in DOMAIN run.hist : run.hist[b].units # <<>>
        /\ Len(ClassBatches) <= 1
        /\ \A b \in DOMAIN ClassBatches :
              /\ co.class_detector.installed
              /\ ClassBatches[b].units = run.sliced.classes
              /\ run.hist[1].gran = "class"
        /\ \A b \in DOMAIN MethodBatches :
              \/ MethodBatches[b].units = run.sliced.methods
              \/ \E c \in DOMAIN run.sliced.classes :
                    MethodBatches[b].units = run.sliced.classes[c].methods
        /\ Flatten([b \in DOMAIN MethodBatches |-> MethodBatches[b].units])
              = IF co.method_detector.installed
                THEN run.sliced.methods \o AllNested ELSE <<>>

\* Standalone methods and the nested methods of a class, in two batches.
C4_Witness ==
    /\ Returned
    /\ Len(run.sliced.methods) = 1
    /\ Len(AllNested) = 1
    /\ Len(MethodBatches) = 2
    /\ MethodBatches[1].units = run.sliced.methods
    /\ MethodBatches[2].units = AllNested

\* C5: the filtered detections of a file are exactly the dispatched results
\* whose label is not "0" and whose confidence is >= min_confidence, in
\* the same relative order.
C5_FilteredDetections ==
    Returned =>
        LET Kept(d) == d.label # "0" /\ d.confidence >= co.min_confidence
        IN  /\ CoreSeq(run.out.debts) = SelectSeq(Dispatched, Kept)
            /\ \A i \in DOMAIN run.out.debts :
                  /\ run.out.debts[i].label # "0"
                  /\ run.out.debts[i].confidence >= co.min_confidence

\* One result dropped as "No Smell", one kept at exactly the threshold.
C5_Witness ==
    /\ Returned
    /\ co.min_confidence = 50
    /\ \E i \in DOMAIN Dispatched : Dispatched[i].label = "0"
    /\ Len(run.out.debts) = 1
    /\ run.out.debts[1].confidence = 50

NoResponseCount ==
    Cardinality({x \in {<<b, i>> : b \in DOMAIN run.hist, i \in 1..MaxMethods} :
                    /\ x[2] \in DOMAIN run.hist[x[1]].responses
                    /\ run.hist[x[1]].responses[x[2]] = NoReply})

\* C9 as claimed: a unit whose detector gave no response never appears in
\* the file's filtered detections, for every configured min_confidence.
C9_NoResponseAlwaysFiltered ==
    Returned =>
        \A i \in DOMAIN run.out.debts : ~IsErrorResult(run.out.debts[i])

\* C9 as amended: a unit whose detector gave no response is counted in the
\* file's total_detections, and confidence filtering removes it whenever
\* min_confidence is above 0; with min_confidence 0 it stays among the
\* filtered detections.
C9_NoResponseFilteredAboveZero ==
    Returned =>
        LET errs(ds) == Cardinality({i \in DOMAIN ds : IsErrorResult(ds[i])})
        IN  /\ errs(run.all_detections) = NoResponseCount
            /\ run.out.total_detections = Len(run.all_detections)
            /\ run.out.total_detections >= NoResponseCount
            /\ co.min_confidence > 0 => errs(run.out.debts) = 0
            /\ co.min_confidence <= 0 => errs(run.out.debts) = NoResponseCount

\* A unit without a response, counted before the filter and removed by it.
C9_Witness ==
    /\ Returned
    /\ co.min_confidence = 50
    /\ NoResponseCount = 1
    /\ run.out.total_detections = 2
    /\ run.out.filtered_detections = 1

(***************************************************************************)
(* Claims about the slicer (SpecSlice)                                     *)
(***************************************************************************)
Sliced == sl.pc = "sliced"

\* The fallback ran: the parser raised on the text.
FellBack == JavaParse(sl.source_code).status = "error"

\* Where a class declaration discarded for its size starts and ends in the
\* text: in the primary path a class of the tree, in the fallback a match
\* of the class pattern.
DiscardedClassSpans ==
    LET source_code == sl.source_code
        starts == IF FellBack
                  THEN Range(ClassMatches(source_code))
                  ELSE {i \in DOMAIN source_code :
                          /\ source_code[i] \in ClassHeaders
                          /\ NextCode(source_code, i) = "{"}
    IN  {<<i, i + Len(ExtractBlock(source_code, i)) - 1>> : i \in
            {j \in starts :
                /\ ExtractBlock(source_code, j) # NoText
                /\ CountLoc(ExtractBlock(source_code, j)) > sl.slicer.max_class_loc}}

\* C3: no class unit returned by slice_code has more lines than
\* max_class_loc and no method unit returned, standalone or nested in a
\* class unit, has fewer lines than min_method_loc, whichever path ran.
C3_UnitSizeBounds ==
    Sliced =>
        /\ \A i \in DOMAIN sl.result.classes :
              LET c == sl.result.classes[i]
              IN  /\ CountLoc(c.code) <= sl.slicer.max_class_loc
                  /\ Get(c.metrics, "loc", 0) <= sl.slicer.max_class_loc
                  /\ \A j \in DOMAIN c.methods :
                        CountLoc(c.methods[j].code) >= sl.slicer.min_method_loc
        /\ \A j \in DOMAIN sl.result.methods :
              CountLoc(sl.result.methods[j].code) >= sl.slicer.min_method_loc

\* The primary path sliced a text with a class that is too large and a
\* class that is not, which keeps a method.
C3_Witness ==
    /\ Sliced
    /\ ~FellBack
    /\ DiscardedClassSpans # {}
    /\ \E i \in DOMAIN sl.result.classes : sl.result.classes[i].methods # <<>>

\* C10: no method nested in a class that was discarded for its size is
\* emitted as a standalone method unit of the file.
C10_DiscardedClassMethodsNotStandalone ==
    Sliced =>
        \A span \in DiscardedClassSpans :
            \A k \in DOMAIN sl.standalone_at :
                ~(span[1] < sl.standalone_at[k] /\ sl.standalone_at[k] <= span[2])

(***************************************************************************)
(* Claims about the counts of a FileAnalysis and the filter (Spec)         *)
(***************************************************************************)
\* The dispatched results left after the "No Smell" removal.
PreFilter == SelectSeq(Dispatched, LAMBDA d : d.label # "0")

\* C13: in every FileAnalysis returned by analyze_file, total_detections is
\* the number of results before the confidence filter, filtered_detections
\* the number after it (so it is at most total_detections and equal to
\* summary.total_debts), by_type counts the filtered results of each
\* debt-type name, and high_confidence counts those with confidence >= 0.8.
C13_FileAnalysisCounts ==
    Returned =>
        LET out == run.out
            debts == run.out.debts
        IN  /\ out.total_detections = Len(PreFilter)
            /\ out.filtered_detections =
                  Len(SelectSeq(PreFilter,
                                LAMBDA d : d.confidence >= co.min_confidence))
            /\ out.filtered_detections = Len(debts)
            /\ out.filtered_detections <= out.total_detections
            /\ out.summary.total_debts = out.filtered_detections
            /\ DOMAIN out.summary.by_type =
                  {debts[i].debt_type : i \in DOMAIN debts}
            /\ \A t \in DOMAIN out.summary.by_type :
                  out.summary.by_type[t] =
                      Cardinality({i \in DOMAIN debts : debts[i].debt_type = t})
            /\ out.summary.high_confidence =
                  Cardinality({i \in DOMAIN debts : debts[i].confidence >= 80})

\* Two results before the filter, one after it, and that one at 0.8 or above.
C13_Witness ==
    /\ Returned
    /\ run.out.total_detections = 2
    /\ run.out.filtered_detections = 1
    /\ run.out.summary.high_confidence = 1

\* C17: the confidence filter applied to the list it returned returns the
\* same list, for the results of every returned analyze_file and every
\* min_confidence.
C17_FilterIdempotent ==
    Returned =>
        LET once == ConfidenceFilter(run.all_detections, co.min_confidence)
        IN  /\ ConfidenceFilter(once, co.min_confidence) = once
            /\ CoreSeq(run.out.debts) = once

\* The filter removed one of two results and kept the other.
C17_Witness ==
    /\ Returned
    /\ Len(run.all_detections) = 2
    /\ Len(run.out.debts) = 1

(***************************************************************************)
(* Claims about the worker pool (Spec)                                     *)
(***************************************************************************)
\* C18: the agent handle of a detector is constructed at most once, over
\* every interleaving of detect calls.
C18_AgentConstructedOnce ==
    co.pc = "ready" => co.agents_created <= 1

\* C20: the results of a batch are handed on in the submission order of
\* its units, whatever order the workers completed in.
C20_SubmissionOrderRestored ==
    \A b \in DOMAIN run.hist :
        LET h == run.hist[b]
            kept == SelectSeq(h.units, LAMBDA u :
                        \E i \in DOMAIN h.raw : h.raw[i].name = u.name)
        IN  [i \in DOMAIN h.raw |-> h.raw[i].name]
                = [i \in DOMAIN kept |-> kept[i].name]

\* C19: a batch goes through the worker pool only when parallel dispatch
\* is enabled and the batch has more than one unit, and then at most 4
\* detector invocations of it are in progress at any time; otherwise its
\* units are invoked one at a time, in submission order.
C19_PoolBounded ==
    /\ run.pc = "pool" =>
          /\ co.parallel_detection
          /\ Len(Batch.units) > 1
          /\ Cardinality(Running) <= 4
    /\ run.pc = "seq" =>
          /\ ~(co.parallel_detection /\ Len(Batch.units) > 1)
          /\ Len(run.results) = run.k - 1
          /\ \A i \in DOMAIN run.results :
                run.results[i].name = Batch.units[i].name

\* Four invocations in progress while a fifth unit waits for a worker.
C19_Witness ==
    /\ run.pc = "pool"
    /\ Cardinality(Running) = 4
    /\ Pending # {}

(***************************************************************************)
(* Claims about localization (SpecLoc)                                     *)
(***************************************************************************)
LocApplied == fn.pc = "applied" /\ Len(fn.detections) >= 1

\* The first detection as given, its location after post-processing, and
\* the lines of the file.
LocGiven == fn.given[1]

LocOut == Get(fn.detections[1], "location", EmptyDict)

FileLines == SplitOn(fn.source_content, NL)

CarriesCode == Get(LocGiven, "code", NoText) # NoText /\ fn.source_content # NoText

RawLines == SplitOn(LocGiven.code, NL)

TrimmedLines == SplitOn(StripWs(LocGiven.code), NL)

\* The file lines that contain the given line, both trimmed.
LinesContaining(first) ==
    {i \in DOMAIN FileLines : IsSubstring(StripWs(first), StripWs(FileLines[i]))}

\* The file lines that match the declaration header pattern of the unit.
HeaderLines ==
    {i \in DOMAIN FileLines :
        HeaderInLine(LocGiven.type, LocGiven.name, FileLines[i])}

Least(S) == CHOOSE x \in S : \A y \in S : x <= y

\* C15 as claimed: with a file line containing the unit's trimmed first
\* line, start_line is the first such line and end_line is start_line plus
\* the line count of the unit's raw code minus 1, not marked approximate.
C15_ExactMatchRawLineCount ==
    (LocApplied /\ CarriesCode /\ LinesContaining(RawLines[1]) # {}) =>
        /\ Get(LocOut, "start_line", 0) = Least(LinesContaining(RawLines[1]))
        /\ Get(LocOut, "end_line", 0) =
              Get(LocOut, "start_line", 0) + Len(RawLines) - 1
        /\ "approximate" \notin DOMAIN LocOut

\* C15 as amended: the lines are those of the unit's code with the white
\* space before and after it removed: start_line is the first file line
\* containing the first of them, trimmed, and end_line is start_line plus
\* their number minus 1, not marked approximate.
C15_ExactMatchTrimmedLineCount ==
    (LocApplied /\ CarriesCode /\ LinesContaining(TrimmedLines[1]) # {}) =>
        /\ Get(LocOut, "start_line", 0) = Least(LinesContaining(TrimmedLines[1]))
        /\ Get(LocOut, "end_line", 0) =
              Get(LocOut, "start_line", 0) + Len(TrimmedLines) - 1
        /\ "approximate" \notin DOMAIN LocOut
        /\ "error" \notin DOMAIN LocOut

\* An exact match below the first file line for a unit whose code starts
\* or ends with a line break.
C15_Witness ==
    /\ LocApplied
    /\ CarriesCode
    /\ LinesContaining(TrimmedLines[1]) # {}
    /\ Len(TrimmedLines) < Len(RawLines)
    /\ Len(TrimmedLines) > 1
    /\ Get(LocOut, "start_line", 0) > 1

\* Post-processing keeps every detection, in the order given.
AllKept ==
    /\ Len(fn.detections) = Len(fn.given)
    /\ \A i \in DOMAIN fn.detections : Core(fn.detections[i]) = fn.given[i]

NoGuessedLines ==
    /\ "error" \in DOMAIN LocOut
    /\ "start_line" \notin DOMAIN LocOut
    /\ "end_line" \notin DOMAIN LocOut

RepoReturned == rp.pc = "returned"

\* File i of the run failed: it could not be read, slicing raised on it, or
\* coordinator.analyze_file raised on it.
FileFailed(i) == rp.seen[i].fault # "none" \/ rp.seen[i].raised

FailedFiles == {i \in DOMAIN rp.files : FileFailed(i)}

\* The aggregate of the returned result, under the key its entry point uses.
RepoAggregate ==
    IF rp.entry = "analyze_repository" THEN rp.results.summary
    ELSE rp.results.aggregate_summary

\* C11: when a repository or directory run has returned, it holds exactly
\* one file result per input file, and the result of every file that
\* failed (unreadable, or an exception in slicing or in analysis) carries
\* the error.
C11_FileFailuresRecorded ==
    RepoReturned =>
        /\ Len(rp.results.file_results) = Len(rp.files)
        /\ \A i \in DOMAIN rp.files :
              FileFailed(i) => "error" \in DOMAIN rp.results.file_results[i]

\* The file results of the files that did not fail, in order.
SucceededResults ==
    LET Walk[i \in 0..Len(rp.files)] ==
            IF i = 0 THEN <<>>
            ELSE IF FileFailed(i) THEN Walk[i - 1]
            ELSE Append(Walk[i - 1], rp.results.file_results[i])
    IN  Walk[Len(rp.files)]

\* C12: in the returned result every failed file is counted in
\* failed_files, analyzed_files + failed_files is the number of input
\* files, and the aggregate is the one of the files that did not fail.
C12_FailedFilesCounted ==
    RepoReturned =>
        /\ "failed_files" \in DOMAIN rp.results
        /\ rp.results.failed_files = Cardinality(FailedFiles)
        /\ rp.results.analyzed_files + rp.results.failed_files = Len(rp.files)
        /\ RepoAggregate =
              IF rp.entry = "analyze_repository"
              THEN AggregateRepoSummary(SucceededResults)
              ELSE AggregateResults(SucceededResults)

\* C14: the returned aggregate carries average_debts_per_file, which is 0
\* when no file was analyzed successfully and total_debts / N otherwise, N
\* being the number of files analyzed successfully.
C14_AverageDebtsPerFile ==
    RepoReturned =>
        LET N == Len(rp.files) - Cardinality(FailedFiles)
        IN  /\ "average_debts_per_file" \in DOMAIN RepoAggregate
            /\ LET avg == RepoAggregate.average_debts_per_file
               IN  IF N = 0 THEN avg.num = 0
                   ELSE avg.num * N = RepoAggregate.total_debts * avg.den

(***************************************************************************)
(* Properties of a parallel batch (checked under Spec)                     *)
(***************************************************************************)
AllFuturesDone == \A i \in DOMAIN run.fut : run.fut[i].st = "done"

\* C21: a parallel batch is left (its dispatch call returns or raises, the
\* next batch starts) only when every invocation submitted for it has
\* completed, and its results are merged into the file's detections in
\* that same step, one raw result per submitted unit.
C21_BarrierSemantics ==
    [][ /\ (run.pc = "pool" /\ run'.pc # "pool") => AllFuturesDone
        /\ (run.pc = "pool" /\ run'.all_detections # run.all_detections) =>
              /\ AllFuturesDone
              /\ run'.pc = "next"
              /\ Len(run'.hist[Len(run'.hist)].raw) = Len(Batch.units) ]_vars

\* A parallel batch of two units has been merged and a later batch or the
\* return follows.
C21_Witness ==
    /\ co.pc = "ready"
    /\ co.parallel_detection
    /\ run.pc = "next"
    /\ run.hist # <<>>
    /\ Len(run.hist[1].units) = 2
    /\ Len(run.all_detections) = 2

(***************************************************************************)
(* Properties of block extraction (checked under SpecBlock)                *)
(***************************************************************************)
BlockDone == sl.pc = "block_done"

\* The position of the closing brace that balances the brace at position
\* i, 0 when there is none: braces are counted outside the literal spans
\* only, a literal span runs from its opening quote to the next quote of
\* the same kind that no backslash of the span escapes.
RECURSIVE BalancingBrace(_, _, _, _)
BalancingBrace(t, i, depth, span) ==
    IF i > Len(t) THEN 0
    ELSE IF span # "none" THEN
        IF t[i] = BS THEN BalancingBrace(t, i + 2, depth, span)
        ELSE IF t[i] = span THEN BalancingBrace(t, i + 1, depth, "none")
        ELSE BalancingBrace(t, i + 1, depth, span)
    ELSE IF t[i] \in {DQ, SQ} THEN BalancingBrace(t, i + 1, depth, t[i])
    ELSE IF t[i] = "{" THEN BalancingBrace(t, i + 1, depth + 1, "none")
    ELSE IF t[i] = "}" /\ depth = 1 THEN i
    ELSE IF t[i] = "}" THEN BalancingBrace(t, i + 1, depth - 1, "none")
    ELSE BalancingBrace(t, i + 1, depth, "none")

\* The balancing brace of the first opening brace at or after start_pos.
BlockClose ==
    LET brace_pos == FindBrace(sl.source_code, sl.start_pos)
    IN  IF brace_pos = 0 THEN 0
        ELSE BalancingBrace(sl.source_code, brace_pos, 0, "none")

\* C22: when an opening brace follows the start position and a closing
\* brace balances it, literal spans set aside, _extract_block returns the
\* text from the start position through that closing brace.
C22_BlockIsBalancedSpan ==
    (BlockDone /\ BlockClose # 0) =>
        sl.block = SubSeq(sl.source_code, sl.start_pos, BlockClose)

\* C23: when no opening brace follows the start position, or the text ends
\* before a closing brace balances the first opening brace, literal spans
\* set aside, _extract_block returns nothing.
C23_UnbalancedBlockReturnsNothing ==
    (BlockDone /\ BlockClose = 0) => sl.block = NoText

(***************************************************************************)
(* Properties of the two extraction strategies (checked under SpecSlice)   *)
(***************************************************************************)
\* A class unit as the primary path builds it: its methods name it as their
\* parent and its metrics, when extracted, hold the tree's field count.
PrimaryClassUnit(c) ==
    /\ \A j \in DOMAIN c.methods : c.methods[j].parent_class = c.name
    /\ sl.slicer.extract_metrics => "field_count" \in DOMAIN c.metrics

\* A class unit as the fallback builds it: its methods have no parent and
\* its metrics hold no more than loc and method_count.
FallbackClassUnit(c) ==
    /\ \A j \in DOMAIN c.methods : c.methods[j].parent_class = PyNone
    /\ DOMAIN c.metrics \subseteq {"loc", "method_count"}

\* C24: when the parser accepted the text, slice_code returns no standalone
\* method and only class units of the primary path, also when it dropped a
\* class; when the parser raised, it returns only units of the fallback.
C24_OneStrategyPerFile ==
    Sliced =>
        IF FellBack
        THEN \A i \in DOMAIN sl.result.classes :
                FallbackClassUnit(sl.result.classes[i])
        ELSE /\ sl.result.methods = <<>>
             /\ \A i \in DOMAIN sl.result.classes :
                   PrimaryClassUnit(sl.result.classes[i])

\* The parser accepted a text with two classes; the primary path dropped
\* one of them and returned the other with a method, metrics extracted.
C24_Witness ==
    /\ Sliced
    /\ ~FellBack
    /\ Len(JavaParse(sl.source_code).classes) = 2
    /\ Len(sl.result.classes) = 1
    /\ sl.slicer.extract_metrics
    /\ sl.result.classes[1].methods # <<>>
    /\ MethodMatches(sl.source_code) # <<>>

\* The ClassDeclaration nodes of the tree that declare the name of unit c.
NodesNamed(c) ==
    LET classes == JavaParse(sl.source_code).classes
    IN  {i \in DOMAIN classes : classes[i].name = c.name}

\* The declared methods of node that are trivial accessors: the name begins
\* with get, set or is and the method's own code, found in the class code,
\* has at most 3 lines.
TrivialAccessors(node, class_code) ==
    {k \in DOMAIN node.methods :
        /\ \/ StartsWith(node.methods[k], "get")
           \/ StartsWith(node.methods[k], "set")
           \/ StartsWith(node.methods[k], "is")
        /\ ExtractMethodCodeByName(class_code, node.methods[k]) # NoText
        /\ CountLoc(ExtractMethodCodeByName(class_code, node.methods[k])) <= 3}

\* C25: every class unit of the primary path has getter_setter_ratio =
\* (declared trivial accessors) / (declared methods), 0 when it declares no
\* method, whatever min_method_loc is.
C25_GetterSetterRatio ==
    (Sliced /\ ~FellBack /\ sl.slicer.extract_metrics) =>
        \A i \in DOMAIN sl.result.classes :
            LET c == sl.result.classes[i]
                classes == JavaParse(sl.source_code).classes
            IN  \A n \in NodesNamed(c) :
                    Cardinality(NodesNamed(c)) = 1 =>
                        c.metrics.getter_setter_ratio =
                            IF Len(classes[n].methods) = 0 THEN ZeroRatio
                            ELSE [num |-> Cardinality(
                                             TrivialAccessors(classes[n], c.code)),
                                  den |-> Len(classes[n].methods)]

(***************************************************************************)
(* Properties of the returned FileAnalysis (checked under Spec)            *)
(***************************************************************************)
\* The units analyze_file dispatched, batch after batch.
DispatchedUnits == Flatten([b \in DOMAIN run.hist |-> run.hist[b].units])

\* The first line of unit's code, trimmed, occurs in a line of the source.
FirstLineInSource(unit) ==
    LET first == StripWs(SplitOn(StripWs(unit.code), NL)[1])
        lines == SplitOn(run.source, NL)
    IN  \E n \in DOMAIN lines : IsSubstring(first, StripWs(lines[n]))

\* C26: analyze_file called with source content and the localizer enabled
\* returns every debt whose unit's first code line occurs in the source
\* with a location holding start_line and end_line, not an error marker.
C26_DetectionsAreLocalized ==
    (Returned /\ run.source # NoText /\ co.localizer) =>
        \A i \in DOMAIN run.out.debts :
            LET d == run.out.debts[i]
            IN  \A u \in DOMAIN DispatchedUnits :
                    (DispatchedUnits[u].name = d.name
                        /\ FirstLineInSource(DispatchedUnits[u])) =>
                        /\ "location" \in DOMAIN d
                        /\ {"start_line", "end_line"} \subseteq DOMAIN d.location
                        /\ "error" \notin DOMAIN d.location

\* C27: constructing a coordinator whose configuration enables the class
\* detector completes without error and installs a class detector, and an
\* analyze_file call on a file with class units then dispatches them to it.
C27_ClassDetectorConstructed ==
    (co.pc \notin {"off", "new"} /\ co.config.class_enabled) =>
        /\ co.pc = "ready"
        /\ co.class_detector.installed
        /\ (run.pc # "idle" /\ Get(run.sliced, "classes", <<>>) # <<>>) =>
              \E b \in DOMAIN run.plan : run.plan[b].gran = "class"

DebtTypeNames == {"Blob", "Data Class", "Feature Envy", "Long Method"}

DefaultMinConfidence == co.pc = "ready" /\ co.min_confidence = 50

\* C28 as claimed: with min_confidence 0.5 every debt of a returned
\* FileAnalysis names one of the four debt types and none is labelled
\* UNKNOWN.
C28_OnlyNamedDebtsReported ==
    (Returned /\ DefaultMinConfidence) =>
        \A i \in DOMAIN run.out.debts :
            /\ run.out.debts[i].debt_type \in DebtTypeNames
            /\ run.out.debts[i].label # "UNKNOWN"

\* C28 as amended: with min_confidence 0.5 every debt of a returned
\* FileAnalysis either names one of the four debt types, or is the UNKNOWN
\* result of a reply that held no label: confidence 0.5, no debt-type
\* name, no error entry.  The result of a unit that got no response is not
\* among them.
C28_NamedOrUnparsedReplyReported ==
    (Returned /\ DefaultMinConfidence) =>
        \A i \in DOMAIN run.out.debts :
            LET d == run.out.debts[i]
            IN  \/ d.debt_type \in DebtTypeNames /\ d.label # "UNKNOWN"
                \/ /\ d.label = "UNKNOWN"
                   /\ d.debt_type = PyNone
                   /\ d.confidence = 50
                   /\ "error" \notin DOMAIN d
                   /\ "raw_response" \in DOMAIN d

\* With min_confidence 0.5 a call returned one debt labelled UNKNOWN, of a
\* reply without a label, while the result of a unit without response was
\* removed.
C28_Witness ==
    /\ Returned
    /\ DefaultMinConfidence
    /\ Len(run.out.debts) = 1
    /\ run.out.debts[1].label = "UNKNOWN"
    /\ \E i \in DOMAIN Dispatched : "error" \in DOMAIN Dispatched[i]

\* The sum of the counts of a dict of counts.
RECURSIVE SumOfCounts(_)
SumOfCounts(counts) ==
    IF DOMAIN counts = {} THEN 0
    ELSE LET k == CHOOSE x \in DOMAIN counts : TRUE
         IN  counts[k] + SumOfCounts([x \in DOMAIN counts \ {k} |-> counts[x]])

\* C29: in the summary of every returned FileAnalysis the class and method
\* counts of by_granularity add up to total_debts, and so do the counts of
\* by_type.
C29_GranularityCountsAddUp ==
    Returned =>
        LET summary == run.out.summary
        IN  /\ summary.by_granularity["class"] + summary.by_granularity["method"]
                  = summary.total_debts
            /\ SumOfCounts(summary.by_type) = summary.total_debts

(***************************************************************************)
(* Properties of the fallback's method extraction (checked under SpecSlice)*)
(***************************************************************************)
BareAccessorNames == {"get", "set", "is"}

\* The candidates of the method pattern in text that are due a unit: the
\* name is not a bare accessor name, a closing brace balances the block and
\* the block has at least min_method_loc lines.  Each with name and code.
DueCandidates(text) ==
    LET CloseOf(p) == BalancingBrace(text, FindBrace(text, p), 0, "none")
    IN  {[name |-> MethodHeaderName(text[p]), code |-> SubSeq(text, p, CloseOf(p))] :
            p \in {q \in Range(MethodMatches(text)) :
                    /\ MethodHeaderName(text[q]) \notin BareAccessorNames
                    /\ CloseOf(q) # 0
                    /\ CountLoc(SubSeq(text, q, CloseOf(q)))
                          >= sl.slicer.min_method_loc}}

\* The method units of a list, each reduced to name and code.
UnitsOf(methods) ==
    {[name |-> methods[j].name, code |-> methods[j].code] : j \in DOMAIN methods}

====
